---------------------------- MODULE Spec2Model ----------------------------
(***************************************************************************)
(* A model of the video catalogue's fact-extraction and consolidation      *)
(* engine (backend/metadata_processor.py, backend/filename_parser.py,      *)
(* backend/actor_management.py, backend/database_operations.py,            *)
(* ai_models/content_analysis.py).                                         *)
(*                                                                         *)
(* Python strings are modelled as sequences of one-character strings, so   *)
(* that lower-casing, sanitising, trimming and slicing are computed the    *)
(* way the code computes them.  Python's None is the record NoneStr.       *)
(***************************************************************************)
EXTENDS Integers, Sequences, FiniteSets, TLC

-----------------------------------------------------------------------------
(* Bounds of the model.                                                    *)

\* Words joined into one generated original filename.
MaxWords == 2

-----------------------------------------------------------------------------
(* Characters and Python str methods.                                      *)

UpperSeq == <<"A","B","C","D","E","F","G","H","I","J","K","L","M",
              "N","O","P","Q","R","S","T","U","V","W","X","Y","Z">>
LowerSeq == <<"a","b","c","d","e","f","g","h","i","j","k","l","m",
              "n","o","p","q","r","s","t","u","v","w","x","y","z">>
UpperChars == {UpperSeq[i] : i \in 1..26}
LowerChars == {LowerSeq[i] : i \in 1..26}
DigitChars == {"0","1","2","3","4","5","6","7","8","9"}
\* The characters the regex class \s and str.strip() treat as whitespace.
WhitespaceChars == {" ", "\t", "\n"}

\* Optional[str]
NoneStr == [some |-> FALSE, val |-> <<>>]
Some(s) == [some |-> TRUE, val |-> s]
\* Python truthiness of an Optional[str]: neither None nor "".
Truthy(o) == o.some /\ o.val # <<>>

LowerChar(c) ==
    IF c \in UpperChars
    THEN LowerSeq[CHOOSE i \in 1..26 : UpperSeq[i] = c]
    ELSE c

\* str.lower()
Lower(s) == [i \in 1..Len(s) |-> LowerChar(s[i])]

\* str.replace(old, new) for single characters old and new
ReplaceChar(s, old, new) == [i \in 1..Len(s) |-> IF s[i] = old THEN new ELSE s[i]]

\* str.isdigit()
IsDigit(s) == Len(s) > 0 /\ \A i \in 1..Len(s) : s[i] \in DigitChars

\* the Python operator  needle in s
Contains(s, needle) ==
    \E i \in 1..(Len(s) - Len(needle) + 1) :
        SubSeq(s, i, i + Len(needle) - 1) = needle

\* str.strip(chars)
StripChars(s, chars) ==
    LET n == Len(s)
        lead == Cardinality({i \in 1..n : \A j \in 1..i : s[j] \in chars})
        trail == Cardinality({i \in 1..n : \A j \in i..n : s[j] \in chars})
    IN  IF lead = n THEN <<>> ELSE SubSeq(s, lead + 1, n - trail)

\* str.strip()
Strip(s) == StripChars(s, WhitespaceChars)

\* s[:n]
Prefix(s, n) == SubSeq(s, 1, IF Len(s) < n THEN Len(s) ELSE n)

\* re.sub(r"\s+", " ", s): every maximal whitespace run becomes one space.
CollapseWhitespace(s) ==
    LET ws(i) == s[i] \in WhitespaceChars
        marked == [i \in 1..Len(s) |->
                      IF ~ws(i) THEN <<s[i]>>
                      ELSE IF i = 1 \/ ~ws(i - 1) THEN <<" ">>
                      ELSE <<>>]
        kept == SelectSeq(marked, LAMBDA m : m # <<>>)
    IN  [i \in 1..Len(kept) |-> kept[i][1]]

\* re.sub(r"\s{2,}", " ", s): a run of two or more whitespace characters
\* becomes one space; a single whitespace character is left as it is.
CollapseRuns(s) ==
    LET ws(i) == i >= 1 /\ i <= Len(s) /\ s[i] \in WhitespaceChars
        marked == [i \in 1..Len(s) |->
                      IF ~ws(i) THEN <<s[i]>>
                      ELSE IF ws(i - 1) THEN <<>>
                      ELSE IF ws(i + 1) THEN <<" ">>
                      ELSE <<s[i]>>]
        kept == SelectSeq(marked, LAMBDA m : m # <<>>)
    IN  [i \in 1..Len(kept) |-> kept[i][1]]

\* os.path.splitext(p): the extension starts at the last dot, unless that
\* dot is before the last "/" or only dots precede it in the file name.
SplitExtIndex(p) ==
    LET seps == {i \in 1..Len(p) : p[i] = "/"}
        dots == {i \in 1..Len(p) : p[i] = "."}
        sepIndex == IF seps = {} THEN 0 ELSE CHOOSE i \in seps : \A j \in seps : j <= i
        dotIndex == IF dots = {} THEN 0 ELSE CHOOSE i \in dots : \A j \in dots : j <= i
    IN  IF dotIndex > sepIndex
           /\ \E k \in (sepIndex + 1)..(dotIndex - 1) : p[k] # "."
        THEN dotIndex
        ELSE Len(p) + 1

\* os.path.splitext(p)[0]
SplitExtBase(p) == SubSeq(p, 1, SplitExtIndex(p) - 1)

\* os.path.splitext(p)[1]
SplitExtExt(p) == SubSeq(p, SplitExtIndex(p), Len(p))

\* filename_string.rsplit('.', 1)[0]
RsplitDotBase(s) ==
    LET dots == {i \in 1..Len(s) : s[i] = "."}
    IN  IF dots = {} THEN s
        ELSE SubSeq(s, 1, (CHOOSE i \in dots : \A j \in dots : j <= i) - 1)

\* sep.join(names)
RECURSIVE Join(_, _)
Join(sep, names) ==
    IF names = <<>> THEN <<>>
    ELSE IF Len(names) = 1 THEN names[1]
    ELSE names[1] \o sep \o Join(sep, Tail(names))

\* len(s.split()): the number of whitespace-separated words
WordCount(s) ==
    Cardinality({i \in 1..Len(s) :
                    /\ s[i] \notin WhitespaceChars
                    /\ (i = 1 \/ s[i - 1] \in WhitespaceChars)})

\* os.path.basename(p)
Basename(p) ==
    LET seps == {i \in 1..Len(p) : p[i] = "/"}
    IN  IF seps = {} THEN p
        ELSE SubSeq(p, (CHOOSE i \in seps : \A j \in seps : j <= i) + 1, Len(p))

\* s.startswith(p)
StartsWith(s, p) == Len(s) >= Len(p) /\ SubSeq(s, 1, Len(p)) = p

\* "[" + s + "]"
Bracketed(s) == <<"[">> \o s \o <<"]">>

-----------------------------------------------------------------------------
(* backend/metadata_processor.py: _sanitize_filename_part                  *)

ForbiddenChars == {"\\", "/", ":", "*", "?", "\"", "<", ">", "|"}

\* A bug that leaves the forbidden characters in place.
SanitizeNoReplace(part) ==
    IF part = <<>> THEN <<>> ELSE Strip(CollapseWhitespace(part))

\* _sanitize_filename_part applied to a str ("" for a falsy part).
SanitizeFilenamePart(part) ==
    IF part = <<>> THEN <<>>
    ELSE Strip(CollapseWhitespace([i \in 1..Len(part) |->
            IF part[i] \in ForbiddenChars THEN "_" ELSE part[i]]))

-----------------------------------------------------------------------------
(* backend/filename_parser.py: _normalize_title                            *)

NormalizeTitle(title_candidate, extracted_code) ==
    IF title_candidate = <<>> THEN NoneStr
    ELSE LET dotted == [i \in 1..Len(title_candidate) |->
                          IF title_candidate[i] \in {".", "_"} THEN " "
                          ELSE title_candidate[i]]
             normalized_title == StripChars(CollapseWhitespace(dotted), {" ", "-"})
         IN  IF Truthy(extracted_code)
                /\ Lower(normalized_title) = Lower(extracted_code.val)
             THEN NoneStr
             ELSE IF normalized_title = <<>> THEN NoneStr
             ELSE Some(normalized_title)

-----------------------------------------------------------------------------
(* backend/metadata_processor.py: _consolidate_title                       *)

STR_Untitled == <<"u","n","t","i","t","l","e","d">>
STR_UnknownTitleSpace == <<"U","n","k","n","o","w","n"," ","T","i","t","l","e">>

\* The length below which a parsed title is weak.
WeakTitleLen == 5

\* is_parsed_title_weak
IsParsedTitleWeak(parsed_title, fallback_filename_part) ==
    \/ ~Truthy(parsed_title)
    \/ Len(parsed_title.val) < WeakTitleLen
    \/ Contains(Lower(parsed_title.val), STR_Untitled)
    \/ IsDigit(parsed_title.val)
    \/ Lower(parsed_title.val)
         = ReplaceChar(ReplaceChar(Lower(SplitExtBase(fallback_filename_part)),
                                   "_", " "), ".", " ")

\* The title after the LLM step (lines 202-221).
TitleAfterLlm(parsed_title, llm_suggested_title, fallback_filename_part) ==
    IF Truthy(llm_suggested_title)
       /\ IsParsedTitleWeak(parsed_title, fallback_filename_part)
    THEN llm_suggested_title
    ELSE parsed_title

\* A bug that drops the absolute fallback "Unknown Title".
ConsolidateTitleNoAbsoluteFallback(parsed_title, llm_suggested_title, fallback_filename_part) ==
    LET t == TitleAfterLlm(parsed_title, llm_suggested_title, fallback_filename_part)
    IN  IF Truthy(t) THEN t.val
        ELSE SanitizeFilenamePart(SplitExtBase(fallback_filename_part))

\* A bug that always prefers the LLM title when there is one.
ConsolidateTitleLlmAlways(parsed_title, llm_suggested_title, fallback_filename_part) ==
    IF Truthy(llm_suggested_title) THEN llm_suggested_title.val
    ELSE IF Truthy(parsed_title) THEN parsed_title.val
    ELSE STR_UnknownTitleSpace

ConsolidateTitle(parsed_title, llm_suggested_title, fallback_filename_part) ==
    LET t == TitleAfterLlm(parsed_title, llm_suggested_title, fallback_filename_part)
    IN  IF Truthy(t) THEN t.val
        ELSE LET s == SanitizeFilenamePart(SplitExtBase(fallback_filename_part))
             IN  IF s # <<>> THEN s ELSE STR_UnknownTitleSpace

-----------------------------------------------------------------------------
(* backend/actor_management.py: the Name Registry.                         *)
(*                                                                         *)
(* A registry is [actors, aliases]: actors[i] is the name of the row with  *)
(* id i of table actors (AUTOINCREMENT ids, rows are never deleted), and   *)
(* aliases is the sequence of rows [alias_name, actor_id] of table         *)
(* actor_aliases.  db is the condition of the database file: "ok",         *)
(* "error" (the statements raise sqlite3.Error, e.g. the tables are        *)
(* missing) or "unreachable" (sqlite3.connect fails and                    *)
(* _get_db_connection returns None).                                       *)

\* The id of an ActorFact without registry id (Python None).
NoId == 0

DbStates == {"ok", "error", "unreachable"}

EmptyRegistry == [actors |-> <<>>, aliases |-> <<>>]

\* SELECT id FROM actors WHERE name = ? (name is UNIQUE), NoId for no row.
SelectActorIdByName(reg, name) ==
    IF \E i \in 1..Len(reg.actors) : reg.actors[i] = name
    THEN CHOOSE i \in 1..Len(reg.actors) : reg.actors[i] = name
    ELSE NoId

\* SELECT actor_id FROM actor_aliases WHERE alias_name = ? (UNIQUE).
SelectAliasActorId(reg, name) ==
    IF \E k \in 1..Len(reg.aliases) : reg.aliases[k].alias_name = name
    THEN reg.aliases[CHOOSE k \in 1..Len(reg.aliases) :
                        reg.aliases[k].alias_name = name].actor_id
    ELSE NoId

\* get_actor_id_by_name_or_alias: [raised, id].  With no connection the
\* with statement raises (None is no context manager), which
\* "except sqlite3.Error" does not catch.
GetActorIdByNameOrAlias(db, reg, name) ==
    IF Strip(name) = <<>> THEN [raised |-> FALSE, id |-> NoId]
    ELSE IF db = "unreachable" THEN [raised |-> TRUE, id |-> NoId]
    ELSE IF db = "error" THEN [raised |-> FALSE, id |-> NoId]
    ELSE LET normalized_name == Strip(name)
             by_name == SelectActorIdByName(reg, normalized_name)
         IN  [raised |-> FALSE,
              id |-> IF by_name # NoId THEN by_name
                     ELSE SelectAliasActorId(reg, normalized_name)]

\* get_actor_name_by_id: [raised, name].
GetActorNameById(db, reg, actor_id) ==
    IF actor_id = NoId THEN [raised |-> FALSE, name |-> NoneStr]
    ELSE IF db = "unreachable" THEN [raised |-> TRUE, name |-> NoneStr]
    ELSE IF db = "error" THEN [raised |-> FALSE, name |-> NoneStr]
    ELSE [raised |-> FALSE,
          name |-> IF actor_id \in 1..Len(reg.actors)
                   THEN Some(reg.actors[actor_id]) ELSE NoneStr]

-----------------------------------------------------------------------------
(* backend/metadata_processor.py: the actor map of one consolidation pass. *)
(*                                                                         *)
(* The dict actors_map is the sequence of its items [key, value] in        *)
(* insertion order.  A key is an int (the registry id) or a str (the       *)
(* lower-cased name): [id, name] with name = <<>> for an int key and       *)
(* id = NoId for a str key.                                                *)

IdKey(actor_id) == [id |-> actor_id, name |-> <<>>]
NameKey(lower_name) == [id |-> NoId, name |-> lower_name]

\* key in actors_map
HasKey(map, key) == \E i \in 1..Len(map) : map[i].key = key

KeyIndex(map, key) == CHOOSE i \in 1..Len(map) : map[i].key = key

\* actors_map[key] = value
DictSet(map, key, value) ==
    IF HasKey(map, key)
    THEN [map EXCEPT ![KeyIndex(map, key)] = [key |-> key, value |-> value]]
    ELSE Append(map, [key |-> key, value |-> value])

\* list(actors_map.values())
DictValues(map) == [i \in 1..Len(map) |-> map[i].value]

ActorFact(actor_id, canonical_name, source) ==
    [id |-> actor_id, canonical_name |-> canonical_name, source |-> source]

\* A bug that keys an unregistered filename actor by its name as spelled,
\* without lower-casing it.
MergeFilenameActorKeyedAsSpelled(map, db, reg, actor_name_fn) ==
    LET actor_id == GetActorIdByNameOrAlias(db, reg, actor_name_fn).id
        db_name == GetActorNameById(db, reg, actor_id).name
    IN  IF actor_id # NoId
        THEN DictSet(map, IdKey(actor_id),
                     ActorFact(actor_id,
                               IF Truthy(db_name) THEN db_name.val ELSE actor_name_fn,
                               "filename_db_match"))
        ELSE DictSet(map, NameKey(actor_name_fn),
                     ActorFact(NoId, actor_name_fn, "filename_no_db_match"))

\* One iteration of the loop over the filename actors (lines 339-357).
MergeFilenameActor(map, db, reg, actor_name_fn) ==
    LET actor_id == GetActorIdByNameOrAlias(db, reg, actor_name_fn).id
        db_name == GetActorNameById(db, reg, actor_id).name
        canonical_name == IF Truthy(db_name) THEN db_name.val ELSE actor_name_fn
    IN  IF actor_id # NoId
        THEN DictSet(map, IdKey(actor_id),
                     ActorFact(actor_id, canonical_name, "filename_db_match"))
        ELSE IF ~HasKey(map, NameKey(Lower(canonical_name)))
        THEN DictSet(map, NameKey(Lower(canonical_name)),
                     ActorFact(NoId, canonical_name, "filename_no_db_match"))
        ELSE map

\* A bug that keys every LLM actor by its lower-cased name, found or not.
MergeLlmActorKeyedByName(map, db, reg, actor_name_llm) ==
    LET actor_id == GetActorIdByNameOrAlias(db, reg, actor_name_llm).id
    IN  IF ~HasKey(map, NameKey(Lower(actor_name_llm)))
        THEN DictSet(map, NameKey(Lower(actor_name_llm)),
                     ActorFact(actor_id, actor_name_llm, "llm_no_db_match"))
        ELSE map

\* One iteration of the loop of _consolidate_actors (lines 256-280).
MergeLlmActor(map, db, reg, actor_name_llm) ==
    LET actor_id == GetActorIdByNameOrAlias(db, reg, actor_name_llm).id
        name_from_db == GetActorNameById(db, reg, actor_id).name
        canonical_name == IF Truthy(name_from_db) THEN name_from_db.val
                          ELSE actor_name_llm
    IN  IF actor_id # NoId
        THEN IF ~HasKey(map, IdKey(actor_id))
             THEN DictSet(map, IdKey(actor_id),
                          ActorFact(actor_id, canonical_name, "llm_db_match"))
             ELSE [map EXCEPT ![KeyIndex(map, IdKey(actor_id))].value.canonical_name
                                  = canonical_name]
        ELSE IF ~HasKey(map, NameKey(Lower(actor_name_llm)))
        THEN DictSet(map, NameKey(Lower(actor_name_llm)),
                     ActorFact(NoId, canonical_name, "llm_no_db_match"))
        ELSE map

\* Whether one of the registry lookups of an iteration raises.
MergeRaises(db, reg, actor_name) ==
    \/ GetActorIdByNameOrAlias(db, reg, actor_name).raised
    \/ GetActorNameById(db, reg, GetActorIdByNameOrAlias(db, reg, actor_name).id).raised

\* The loop over the filename actors, from an empty map.
RECURSIVE FilenameActorsMap(_, _, _)
FilenameActorsMap(db, reg, names) ==
    IF names = <<>> THEN <<>>
    ELSE MergeFilenameActor(FilenameActorsMap(db, reg, SubSeq(names, 1, Len(names) - 1)),
                            db, reg, names[Len(names)])

\* _consolidate_actors: the loop over the LLM actors, then the values.
RECURSIVE LlmActorsMap(_, _, _, _)
LlmActorsMap(map, db, reg, names) ==
    IF names = <<>> THEN map
    ELSE MergeLlmActor(LlmActorsMap(map, db, reg, SubSeq(names, 1, Len(names) - 1)),
                       db, reg, names[Len(names)])

ConsolidateActors(current_actors_map, llm_identified_actors, db, reg) ==
    DictValues(LlmActorsMap(current_actors_map, db, reg, llm_identified_actors))

-----------------------------------------------------------------------------
(* Python re: a backtracking matcher over regular expressions given as     *)
(* records.  Positions are indices into the string; a match that starts at *)
(* p and ends at e covers s[p..e-1].                                       *)

WordChars == UpperChars \cup LowerChars \cup DigitChars \cup {"_"}
AlnumChars == UpperChars \cup LowerChars \cup DigitChars

\* a character class
ReSet(chars) == [t |-> "set", chars |-> chars]
\* r1 r2 ... rn
ReCat(parts) == [t |-> "cat", parts |-> parts]
\* r1|r2|...|rn
ReAlt(parts) == [t |-> "alt", parts |-> parts]
\* r* and r*?
ReStar(r) == [t |-> "star", r |-> r, greedy |-> TRUE]
ReLazyStar(r) == [t |-> "star", r |-> r, greedy |-> FALSE]
\* r+ and r+?
RePlus(r) == ReCat(<<r, ReStar(r)>>)
ReLazyPlus(r) == ReCat(<<r, ReLazyStar(r)>>)
\* r?
ReOpt(r) == ReAlt(<<r, ReCat(<<>>)>>)
\* $: the end of the string, or just before a newline that ends it
ReEnd == [t |-> "end"]
\* a literal string
ReLit(str) == ReCat([i \in 1..Len(str) |-> ReSet({str[i]})])

\* The positions that occur in the sequences of results.
PositionsIn(results) ==
    UNION {{results[i][j] : j \in 1..Len(results[i])} : i \in 1..Len(results)}

Largest(all) == IF all = {} THEN 0 ELSE CHOOSE e \in all : \A a \in all : a <= e

\* Where position e first occurs in results: the number of the sequence,
\* then the index in it, as one number.
FirstPlace(results, e, width) ==
    LET has(i) == \E j \in 1..Len(results[i]) : results[i][j] = e
        i == CHOOSE i1 \in 1..Len(results) :
                 has(i1) /\ \A i2 \in 1..(i1 - 1) : ~has(i2)
    IN  i * width + (CHOOSE j \in 1..Len(results[i]) : results[i][j] = e)

\* The positions of the set all, ordered by key.
OrderByKey(all, key) ==
    LET rank == [e \in 1..Len(key) |->
                   IF e \notin all THEN 0
                   ELSE 1 + Cardinality({a \in all : key[a] < key[e]})] \o <<>>
    IN  [k \in 1..Cardinality(all) |-> CHOOSE e \in all : rank[e] = k] \o <<>>

\* The positions all that occur in results, ordered by first occurrence;
\* top is the largest of them.
OrderByFirstPlace(results, all, top) ==
    OrderByKey(all, [e \in 1..top |->
                       IF e \notin all THEN 0
                       ELSE FirstPlace(results, e, top + 1)] \o <<>>)

\* The concatenation of the sequences of end positions in results, without
\* repeats: each position stays where it first occurs.
MergeEnds(results) ==
    IF results = <<>> THEN <<>>
    ELSE OrderByFirstPlace(results, PositionsIn(results),
                           Largest(PositionsIn(results)))

\* The length of the run of characters of chars that starts at p.
RunLength(chars, s, p) ==
    Cardinality({i \in p..Len(s) : \A j \in p..i : s[j] \in chars})

\* The positions p + k, ..., p (greedy) or p, ..., p + k (lazy).
RunEnds(p, k, greedy) ==
    [i \in 1..(k + 1) |-> IF greedy THEN p + k + 1 - i ELSE p + i - 1] \o <<>>

\* The end positions of the matches of r that start at p, in the order in
\* which the matcher tries them.
RECURSIVE ReEnds(_, _, _)

\* ... of r1 r2 ... rn, given the end positions of r1
ReEndsCat(r, s, firsts) ==
    [i \in 1..Len(firsts) |-> ReEnds(ReCat(Tail(r.parts)), s, firsts[i])] \o <<>>

\* ... of r*, given the end positions of one non-empty match of r
ReEndsStar(r, s, p, once) ==
    IF r.greedy
    THEN [i \in 1..Len(once) |-> ReEnds(r, s, once[i])] \o << <<p>> >>
    ELSE << <<p>> >> \o [i \in 1..Len(once) |-> ReEnds(r, s, once[i])]

ReEnds(r, s, p) ==
    CASE r.t = "set" ->
           IF p <= Len(s) /\ s[p] \in r.chars THEN <<p + 1>> ELSE <<>>
      [] r.t = "end" ->
           IF p = Len(s) + 1 \/ (p = Len(s) /\ s[p] = "\n") THEN <<p>> ELSE <<>>
      [] OTHER ->
           MergeEnds(
             CASE r.t = "cat" ->
                    IF r.parts = <<>> THEN << <<p>> >>
                    ELSE IF Len(r.parts) = 1 THEN << ReEnds(r.parts[1], s, p) >>
                    ELSE ReEndsCat(r, s, ReEnds(r.parts[1], s, p))
               [] r.t = "alt" ->
                    [i \in 1..Len(r.parts) |-> ReEnds(r.parts[i], s, p)] \o <<>>
               [] r.t = "star" ->
                    IF r.r.t = "set"
                    THEN << RunEnds(p, RunLength(r.r.chars, s, p), r.greedy) >>
                    ELSE ReEndsStar(r, s, p,
                             SelectSeq(ReEnds(r.r, s, p), LAMBDA e : e > p)))

NoMatch == [found |-> FALSE, start |-> 0, end |-> 0]

\* The match of r at the leftmost of the start positions starts.
LeftmostMatch(r, s, starts) ==
    IF starts = {} THEN NoMatch
    ELSE [found |-> TRUE,
          start |-> CHOOSE q \in starts : \A q2 \in starts : q <= q2,
          end |-> ReEnds(r, s, CHOOSE q \in starts : \A q2 \in starts : q <= q2)[1]]

\* pattern.search(s, pos): the leftmost match from position pos on.
ReSearchFrom(r, s, pos) ==
    LeftmostMatch(r, s, {p \in pos..(Len(s) + 1) : ReEnds(r, s, p) # <<>>})

\* pattern.search(s)
ReSearch(r, s) == ReSearchFrom(r, s, 1)

\* re.fullmatch(r, s)
ReFullMatch(r, s) ==
    SelectSeq(ReEnds(r, s, 1), LAMBDA e : e = Len(s) + 1) # <<>>

\* re.split(r, s) for a pattern that matches no empty string
RECURSIVE ReSplitFrom(_, _, _)

\* ... given the next match m
ReSplitAt(r, s, pos, m) ==
    IF ~m.found THEN <<SubSeq(s, pos, Len(s))>>
    ELSE <<SubSeq(s, pos, m.start - 1)>> \o ReSplitFrom(r, s, m.end)

ReSplitFrom(r, s, pos) == ReSplitAt(r, s, pos, ReSearchFrom(r, s, pos))

ReSplit(r, s) == ReSplitFrom(r, s, 1)

\* s.split("\n")
SplitLines(s) == ReSplit(ReSet({"\n"}), s)

\* s.replace(old, "", 1)
RemoveFirst(s, old) ==
    LET hits == {i \in 1..(Len(s) - Len(old) + 1) :
                    SubSeq(s, i, i + Len(old) - 1) = old}
    IN  IF hits = {} \/ old = <<>> THEN s
        ELSE LET i == CHOOSE h \in hits : \A h2 \in hits : h <= h2
             IN  SubSeq(s, 1, i - 1) \o SubSeq(s, i + Len(old), Len(s))

-----------------------------------------------------------------------------
(* backend/filename_parser.py                                              *)

UpperRe == ReSet(UpperChars)
AlnumRe == ReSet(AlnumChars)
SpaceRe == ReSet(WhitespaceChars)

\* CODE_PATTERN_BRACKETS: \[([\w.-]+)\]
CODE_PATTERN_BRACKETS ==
    ReCat(<<ReSet({"["}), RePlus(ReSet(WordChars \cup {".", "-"})), ReSet({"]"})>>)

\* CODE_PATTERN_NO_BRACKETS:
\* ((?:[A-Z][A-Za-z0-9]*_)*[A-Z][A-Za-z0-9]*[-_][A-Za-z0-9]*\d[A-Za-z0-9]*)
CODE_PATTERN_NO_BRACKETS ==
    ReCat(<<ReStar(ReCat(<<UpperRe, ReStar(AlnumRe), ReSet({"_"})>>)),
            UpperRe, ReStar(AlnumRe), ReSet({"-", "_"}),
            ReStar(AlnumRe), ReSet(DigitChars), ReStar(AlnumRe)>>)

\* [_.-](?:ep|episode|part|vol|chapter|sc)[_.-]?\d+$ (line 78), matched
\* ignoring case: applied to the lower-cased subject.
EpisodeMarkerRe ==
    ReCat(<<ReSet({"_", ".", "-"}),
            ReAlt(<<ReLit(<<"e","p">>), ReLit(<<"e","p","i","s","o","d","e">>), ReLit(<<"p","a","r","t">>), ReLit(<<"v","o","l">>), ReLit(<<"c","h","a","p","t","e","r">>), ReLit(<<"s","c">>)>>),
            ReOpt(ReSet({"_", ".", "-"})), RePlus(ReSet(DigitChars)), ReEnd>>)

\* One actor name of the dash pattern: [A-Z][\w\s'.-]+?
DashNameRe ==
    ReCat(<<UpperRe,
            ReLazyPlus(ReSet(WordChars \cup WhitespaceChars \cup {"'", ".", "-"}))>>)

\* The separator that opens the dash pattern: \s-\s+
DashOpenRe == ReCat(<<SpaceRe, ReSet({"-"}), RePlus(SpaceRe)>>)

\* Group 1 of the dash pattern and the closing $.
DashGroupRe ==
    ReCat(<<DashNameRe,
            ReStar(ReCat(<<ReStar(SpaceRe), ReSet({",", "&"}), ReStar(SpaceRe),
                           DashNameRe>>)),
            ReEnd>>)

\* ACTOR_PATTERN_DASH_SEPARATOR:
\* \s-\s+((?:[A-Z][\w\s'.-]+?)(?:\s*[,&]\s*[A-Z][\w\s'.-]+?)*)$
ACTOR_PATTERN_DASH_SEPARATOR == ReCat(<<DashOpenRe, DashGroupRe>>)

\* \s*[,&]\s* (line 108)
ActorSplitRe == ReCat(<<ReStar(SpaceRe), ReSet({",", "&"}), ReStar(SpaceRe)>>)

\* [A-Z][a-z']+ (line 152)
CapitalizedWordRe == ReCat(<<UpperRe, RePlus(ReSet(LowerChars \cup {"'"}))>>)

\* ([A-Z][a-z']+|[A-Z])
SuffixAtomRe == ReAlt(<<CapitalizedWordRe, UpperRe>>)

\* ACTOR_PATTERN_SUFFIX_HEURISTIC:
\* [_\s](([A-Z][a-z']+|[A-Z])(?:[_\s]([A-Z][a-z']+|[A-Z]))?)$
ACTOR_PATTERN_SUFFIX_HEURISTIC ==
    ReCat(<<ReSet({"_"} \cup WhitespaceChars), SuffixAtomRe,
            ReOpt(ReCat(<<ReSet({"_"} \cup WhitespaceChars), SuffixAtomRe>>)),
            ReEnd>>)

COMMON_NON_ACTOR_WORDS ==
    { <<"i","n">>, <<"o","n">>, <<"o","f">>, <<"a">>, <<"a","n">>, 
      <<"t","h","e">>, <<"i","s">>, <<"a","t">>, <<"t","o">>, 
      <<"a","n","d">>, <<"o","r">>, <<"b","u","t">>, <<"v","s">>, 
      <<"v","s",".">>, <<"p","a","r","t">>, <<"e","p">>, 
      <<"e","p","i","s","o","d","e">>, <<"v","o","l">>, 
      <<"v","o","l","u","m","e">>, <<"c","h","a","p","t","e","r">>, 
      <<"s","c","e","n","e">>, <<"o","f","f","i","c","i","a","l">>, 
      <<"t","r","a","i","l","e","r">>, <<"m","o","v","i","e">>, 
      <<"f","i","l","m">>, <<"v","i","d","e","o">>, <<"c","l","i","p">>, 
      <<"f","i","n","a","l">>, <<"e","x","t","e","n","d","e","d">>, 
      <<"u","n","c","u","t">>, 
      <<"r","e","m","a","s","t","e","r","e","d">>, <<"o","s","t">>, 
      <<"s","o","u","n","d","t","r","a","c","k">>, <<"d","v","d">>, 
      <<"h","d">>, <<"s","d">>, <<"b","d">>, <<"c","d">> }

\* COMMON_SUFFIX_NON_ACTOR_PATTERN:
\* (?:Part|Ep|Vol|Chapter|Scene|The|An|A)[_\s]?\d+$, matched ignoring case:
\* applied to the lower-cased subject.
COMMON_SUFFIX_NON_ACTOR_PATTERN ==
    ReCat(<<ReAlt(<<ReLit(<<"p","a","r","t">>), ReLit(<<"e","p">>), ReLit(<<"v","o","l">>), ReLit(<<"c","h","a","p","t","e","r">>), ReLit(<<"s","c","e","n","e">>), ReLit(<<"t","h","e">>), ReLit(<<"a","n">>), ReLit(<<"a">>)>>),
            ReOpt(ReSet({"_"} \cup WhitespaceChars)), RePlus(ReSet(DigitChars)),
            ReEnd>>)

\* [_\s]+ (line 145)
AtomSplitRe == RePlus(ReSet({"_"} \cup WhitespaceChars))

\* The characters of str.strip(" _-.")
SeparatorChars == {" ", "_", "-", "."}

\* match.group(0)
Group0(s, match) == SubSeq(s, match.start, match.end - 1)

\* filename_part.replace(match.group(0), "", 1).strip(" _-.")
WithoutMatch(filename_part, match) ==
    StripChars(RemoveFirst(filename_part, Group0(filename_part, match)),
               SeparatorChars)

\* _extract_code: (extracted_code, remaining_filename_part)
ExtractCode(filename_part) ==
    LET \* lines 64-87, with the results of the two searches
        From(match_bracket_code, match_no_bracket_code) ==
            IF match_bracket_code.found
            THEN [code |-> Some(SubSeq(filename_part, match_bracket_code.start + 1,
                                       match_bracket_code.end - 2)),
                  remaining |-> WithoutMatch(filename_part, match_bracket_code)]
            ELSE IF match_no_bracket_code.found
                    /\ ~ReSearch(EpisodeMarkerRe,
                                 Lower(Group0(filename_part,
                                              match_no_bracket_code))).found
            THEN [code |-> Some(Group0(filename_part, match_no_bracket_code)),
                  remaining |-> WithoutMatch(filename_part, match_no_bracket_code)]
            ELSE [code |-> NoneStr, remaining |-> filename_part]
    IN  From(ReSearch(CODE_PATTERN_BRACKETS, filename_part),
             ReSearch(CODE_PATTERN_NO_BRACKETS, filename_part))

\* [name.strip().replace("_", " ") for name in names if name.strip()]
\* (lines 106-109)
CleanedNames(names) ==
    [i \in 1..Len(names) |-> ReplaceChar(Strip(names[i]), "_", " ")]

\* The text before the match, stripped of separators.
BeforeMatch(filename_part, match) ==
    StripChars(SubSeq(filename_part, 1, match.start - 1), SeparatorChars)

\* match.group(1) of ACTOR_PATTERN_DASH_SEPARATOR: the group starts after
\* the first opening " - " from which the rest of the pattern matches.
DashActorString(filename_part, match) ==
    SubSeq(filename_part,
           SelectSeq(ReEnds(DashOpenRe, filename_part, match.start),
                     LAMBDA e : ReEnds(DashGroupRe, filename_part, e) # <<>>)[1],
           match.end - 1)

\* _extract_actors_dash_separated: (actors, remaining_filename_part)
ExtractActorsDashSeparated(filename_part) ==
    LET \* lines 104-113, with the result of the search
        From(match) ==
            IF match.found
            THEN [actors |-> CleanedNames(
                                SelectSeq(ReSplit(ActorSplitRe,
                                                  DashActorString(filename_part,
                                                                  match)),
                                          LAMBDA name : Strip(name) # <<>>)),
                  remaining |-> BeforeMatch(filename_part, match)]
            ELSE [actors |-> <<>>, remaining |-> filename_part]
    IN  From(ReSearch(ACTOR_PATTERN_DASH_SEPARATOR, filename_part))

\* Whether one atom of a suffix candidate is accepted (lines 148-163).
IsValidNamePart(part) ==
    \/ ReFullMatch(UpperRe, part)
    \/ (ReFullMatch(CapitalizedWordRe, part)
        /\ Lower(part) \notin COMMON_NON_ACTOR_WORDS)

\* is_blacklisted_candidate (lines 137-142)
IsBlacklistedCandidate(actor_candidate_str) ==
    \/ ReSearch(COMMON_SUFFIX_NON_ACTOR_PATTERN, Lower(actor_candidate_str)).found
    \/ Lower(actor_candidate_str) \in COMMON_NON_ACTOR_WORDS

\* valid_name_parts (lines 146-163): the atoms, or nothing when one atom is
\* not accepted.
ValidNameParts(name_parts) ==
    IF \A i \in 1..Len(name_parts) : IsValidNamePart(name_parts[i])
    THEN name_parts ELSE <<>>

\* extracted_actors (lines 165-172); group0 is match.group(0).
ExtractedActors(valid_name_parts, group0) ==
    IF valid_name_parts = <<>> THEN <<>>
    ELSE IF Len(valid_name_parts) > 1 /\ Contains(group0, <<"_">>)
    THEN valid_name_parts
    ELSE <<Join(<<" ">>, valid_name_parts)>>

\* _extract_actors_suffix_heuristic: (extracted_actors, remaining_filename_part)
ExtractActorsSuffixHeuristic(filename_part) ==
    LET \* lines 172-179
        Result(match, extracted_actors) ==
            IF extracted_actors # <<>>
            THEN [actors |-> extracted_actors,
                  remaining |-> BeforeMatch(filename_part, match)]
            ELSE [actors |-> <<>>, remaining |-> filename_part]
        \* lines 136-170; actor_candidate_str is match.group(1)
        Candidate(match, actor_candidate_str) ==
            IF match.found /\ ~IsBlacklistedCandidate(actor_candidate_str)
            THEN Result(match,
                     ExtractedActors(
                         ValidNameParts(
                             SelectSeq(ReSplit(AtomSplitRe, actor_candidate_str),
                                       LAMBDA p : p # <<>>)),
                         Group0(filename_part, match)))
            ELSE [actors |-> <<>>, remaining |-> filename_part]
        \* lines 131-132: group 1 starts after the separator
        From(match) ==
            Candidate(match,
                      SubSeq(filename_part, match.start + 1, match.end - 1))
    IN  From(ReSearch(ACTOR_PATTERN_SUFFIX_HEURISTIC, filename_part))

\* The names of a list without case-insensitive repeats, first spelling
\* kept (lines 261-266).
UniqueActors(names) ==
    LET marked == [i \in 1..Len(names) |->
                      IF \E j \in 1..(i - 1) : Lower(names[j]) = Lower(names[i])
                      THEN <<>> ELSE <<names[i]>>]
        kept == SelectSeq(marked, LAMBDA m : m # <<>>)
    IN  [i \in 1..Len(kept) |-> kept[i][1]]

\* A bug that does not hand the file name back.
NoParseWithoutName(filename_string) ==
    [code |-> NoneStr, actors |-> <<>>, title |-> NoneStr,
     original_filename |-> <<>>]

\* The facts returned for an empty or hidden file name (lines 231-244).
NoParse(filename_string) ==
    [code |-> NoneStr, actors |-> <<>>, title |-> NoneStr,
     original_filename |-> filename_string]

\* A bug that leaves a name with no code and no actors without a title.
ParsedTitleOnlyBesideFacts(filename_base, extracted_code, final_actors_list, extracted_title) ==
    IF final_actors_list = <<>> /\ ~Truthy(extracted_code) THEN NoneStr
    ELSE extracted_title

\* The title parse_filename returns (lines 271-281).
ParsedTitle(filename_base, extracted_code, final_actors_list, extracted_title) ==
    IF ~Truthy(extracted_title) /\ final_actors_list = <<>>
       /\ Truthy(extracted_code)
       /\ Lower(filename_base) = Lower(extracted_code.val)
    THEN NoneStr
    ELSE IF ~Truthy(extracted_title) /\ filename_base # <<>>
            /\ final_actors_list = <<>> /\ ~Truthy(extracted_code)
    THEN NormalizeTitle(filename_base, NoneStr)
    ELSE extracted_title

\* parse_filename
ParseFilename(filename_string) ==
    LET filename_base == RsplitDotBase(filename_string)
        \* lines 261-289: actors is the list both strategies produced and
        \* title_candidate the text they left
        TitleStep(extracted_code, actors, title_candidate) ==
            [code |-> extracted_code, actors |-> UniqueActors(actors),
             title |-> ParsedTitle(filename_base, extracted_code,
                                   UniqueActors(actors),
                                   NormalizeTitle(title_candidate, extracted_code)),
             original_filename |-> filename_string]
        \* lines 253-257: the suffix heuristic runs when the dash-separated
        \* step found no actor
        SuffixStep(extracted_code, dash_step, suffix_step) ==
            TitleStep(extracted_code, dash_step.actors \o suffix_step.actors,
                      suffix_step.remaining)
        DashStep(extracted_code, dash_step) ==
            SuffixStep(extracted_code, dash_step,
                       IF dash_step.actors = <<>>
                       THEN ExtractActorsSuffixHeuristic(dash_step.remaining)
                       ELSE [actors |-> <<>>, remaining |-> dash_step.remaining])
        \* lines 247-250
        CodeStep(code_step) ==
            DashStep(code_step.code,
                     ExtractActorsDashSeparated(code_step.remaining))
    IN  IF filename_string = <<>> \/ filename_string[1] = "."
        THEN NoParse(filename_string)
        ELSE IF filename_base = <<>> THEN NoParse(filename_string)
        ELSE CodeStep(ExtractCode(filename_base))

-----------------------------------------------------------------------------
(* backend/metadata_processor.py: generate_standardized_filename           *)

\* The printable ASCII characters in code point order: 32 to 95, 97 to 126.
AsciiLow == <<" ","!","\"","#","$","%","&","'","(",")","*","+",",","-",".","/",
             "0","1","2","3","4","5","6","7","8","9",":",";","<","=",">","?",
             "@","A","B","C","D","E","F","G","H","I","J","K","L","M","N","O",
             "P","Q","R","S","T","U","V","W","X","Y","Z","[","\\","]","^","_">>
AsciiHigh == <<"a","b","c","d","e","f","g","h","i","j","k","l","m","n","o",
             "p","q","r","s","t","u","v","w","x","y","z","{","|","}","~">>

\* ord(c)
CharCode(c) ==
    IF c = "\t" THEN 9
    ELSE IF \E i \in 1..Len(AsciiLow) : AsciiLow[i] = c
    THEN 31 + (CHOOSE i \in 1..Len(AsciiLow) : AsciiLow[i] = c)
    ELSE 96 + (CHOOSE i \in 1..Len(AsciiHigh) : AsciiHigh[i] = c)

\* a <= b for Python strings (code point order)
StrLessEq(a, b) ==
    LET m == IF Len(a) < Len(b) THEN Len(a) ELSE Len(b)
        same == Cardinality({i \in 1..m : \A j \in 1..i : a[j] = b[j]})
    IN  IF same = m THEN Len(a) <= Len(b)
        ELSE CharCode(a[same + 1]) < CharCode(b[same + 1])

\* sorted(names)
RECURSIVE SortedStrings(_)
SortedStrings(names) ==
    IF names = <<>> THEN <<>>
    ELSE LET rest == SortedStrings(Tail(names))
             x == names[1]
             k == Cardinality({i \in 1..Len(rest) : ~StrLessEq(x, rest[i])})
         IN  SubSeq(rest, 1, k) \o <<x>> \o SubSeq(rest, k + 1, Len(rest))

STR_UnknownTitle == <<"U","n","k","n","o","w","n","_","T","i","t","l","e">>
STR_UntitledVideo == <<"U","n","t","i","t","l","e","d","_","V","i","d","e","o">>
EXT_unknown == <<".","u","n","k","n","o","w","n">>

\* The longest base name kept whole.
max_len == 200

\* A bug that renders the publisher although a code exists.
CodePublisherStrPublisherFirst(code, publisher) ==
    IF Truthy(publisher)
    THEN <<"[">> \o SanitizeFilenamePart(publisher.val) \o <<"]">>
    ELSE IF Truthy(code) THEN <<"[">> \o SanitizeFilenamePart(code.val) \o <<"]">>
    ELSE <<>>

\* code_publisher_str (lines 95-99)
CodePublisherStr(code, publisher) ==
    IF Truthy(code) THEN <<"[">> \o SanitizeFilenamePart(code.val) \o <<"]">>
    ELSE IF Truthy(publisher)
    THEN <<"[">> \o SanitizeFilenamePart(publisher.val) \o <<"]">>
    ELSE <<>>

\* The title segment appended to filename_parts (lines 103-106).
TitleSegment(title) ==
    IF Truthy(title) THEN SanitizeFilenamePart(title.val)
    ELSE STR_UnknownTitle

\* actor_names (lines 109-115): the sanitized canonical names, sorted.
ActorNames(actors) ==
    LET named == SelectSeq(actors, LAMBDA a : a.canonical_name # <<>>)
    IN  SortedStrings([i \in 1..Len(named) |->
                          SanitizeFilenamePart(named[i].canonical_name)])

\* A bug that cuts the base name without trimming the cut point.
TruncateNoTrim(base_name) ==
    IF Len(base_name) > max_len THEN Prefix(base_name, max_len)
    ELSE base_name

\* The length rule (lines 134-136).
Truncate(base_name) ==
    IF Len(base_name) > max_len
    THEN StripChars(Prefix(base_name, max_len), {" ", "_", "-", "."})
    ELSE base_name

\* valid_extension (lines 138-142)
ValidExtension(original_extension) ==
    IF original_extension # <<>> /\ original_extension[1] = "."
    THEN original_extension ELSE EXT_unknown

\* filename_parts joined and tidied (lines 100-120): " ".join(...).strip(),
\* runs of whitespace collapsed, stripped again.
Assembled(code_publisher_str, title_segment, actors, actor_names) ==
    Strip(CollapseRuns(Strip(Join(<<" ">>,
        (IF code_publisher_str # <<>> THEN <<code_publisher_str>> ELSE <<>>)
        \o <<title_segment>>
        \o (IF actors # <<>> /\ actor_names # <<>>
            THEN << <<"-", " ">> \o Join(<<",", " ">>, actor_names) >>
            ELSE <<>>)))))

\* The base name the absolute fallback builds from the original file name
\* (lines 126-132).
FallbackName(original_filename_for_fallback) ==
    LET sanitized_original ==
            SanitizeFilenamePart(SplitExtBase(
                IF original_filename_for_fallback.some
                THEN original_filename_for_fallback.val
                ELSE STR_UntitledVideo))
    IN  IF sanitized_original # <<>> THEN sanitized_original
        ELSE STR_UntitledVideo

\* base_name after the absolute fallback (lines 122-132).
AfterFallback(meta, code_publisher_str, assembled) ==
    IF \/ assembled = <<>>
       \/ (assembled = STR_UnknownTitle
           /\ code_publisher_str = <<>> /\ meta.actors = <<>>)
    THEN FallbackName(meta.original_filename_for_fallback)
    ELSE assembled

\* generate_standardized_filename with its locals: filename_parts joined
\* and tidied (assembled), base_name after the absolute fallback and after
\* the length rule, and the returned name.
StandardizedName(meta, original_extension) ==
    LET \* lines 138-143
        Named(code_publisher_str, title_segment, assembled, after_fallback, base_name) ==
            [code_publisher_str |-> code_publisher_str,
             title_segment |-> title_segment,
             assembled |-> assembled,
             after_fallback |-> after_fallback,
             base_name |-> base_name,
             filename |-> base_name \o ValidExtension(original_extension)]
        \* lines 134-136
        Cut(code_publisher_str, title_segment, assembled, after_fallback) ==
            Named(code_publisher_str, title_segment, assembled, after_fallback,
                  Truncate(after_fallback))
        \* lines 122-132
        Fallback(code_publisher_str, title_segment, assembled) ==
            Cut(code_publisher_str, title_segment, assembled,
                AfterFallback(meta, code_publisher_str, assembled))
        \* lines 100-120
        Parts(code_publisher_str, title_segment) ==
            Fallback(code_publisher_str, title_segment,
                     Assembled(code_publisher_str, title_segment, meta.actors,
                               ActorNames(meta.actors)))
    IN  Parts(CodePublisherStr(meta.code, meta.publisher),
              TitleSegment(meta.title))

GenerateStandardizedFilename(meta, original_extension) ==
    StandardizedName(meta, original_extension).filename

-----------------------------------------------------------------------------
(* ai_models: the Text Insight Service.                                    *)

\* The module global ollama_client: None, or a connected client.
NoClient == "None"
Client == "Client"

\* What the LLM returns for the three prompts of one call; NoneStr is a
\* failed request.
NoAnswers == [publisher |-> NoneStr, actors |-> NoneStr, title |-> NoneStr]

STR_none == <<"n","o","n","e">>
STR_na == <<"n","/","a">>

\* A bug that compares the answer without trimming and lower-casing it.
IsNoAnswerExact(answer) ==
    ~Truthy(answer) \/ answer.val \in {STR_none, STR_na}

\* Whether an LLM answer counts as "nothing found" (lines 76, 86, 102).
IsNoAnswer(answer) ==
    ~Truthy(answer) \/ Lower(Strip(answer.val)) \in {STR_none, STR_na, <<>>}

\* [name.strip() for name in names]
StripEach(names) == [i \in 1..Len(names) |-> Strip(names[i])]

\* identified_actors (line 87): the trimmed lines of at least two words.
IdentifiedActors(actors_text_llm) ==
    StripEach(SelectSeq(SplitLines(actors_text_llm), LAMBDA name :
                  Strip(name) # <<>> /\ WordCount(Strip(name)) >= 2))

NoEnhancements ==
    [llm_suggested_title |-> NoneStr, llm_identified_actors |-> <<>>,
     llm_identified_publisher |-> NoneStr]

\* enhance_textual_metadata, with the LLM's answers as an argument; the
\* web search results it also collects are not modelled.
EnhanceTextualMetadata(ollama_client, text_input, original_filename, answers) ==
    IF ollama_client = NoClient THEN NoEnhancements
    ELSE IF Strip(text_input) = <<>> THEN NoEnhancements
    ELSE [llm_identified_publisher |->
              IF IsNoAnswer(answers.publisher) THEN NoneStr
              ELSE Some(Strip(answers.publisher.val)),
          llm_identified_actors |->
              IF IsNoAnswer(answers.actors) THEN <<>>
              ELSE IdentifiedActors(answers.actors.val),
          llm_suggested_title |->
              IF WordCount(text_input) > 4
                 /\ ~(Contains(original_filename, <<"[">>)
                      /\ Contains(original_filename, <<"]">>))
                 /\ ~IsNoAnswer(answers.title)
              THEN Some(Strip(answers.title.val))
              ELSE NoneStr]

\* configure_ollama_client: the new value of llm_analyzer.ollama_client,
\* given whether the server answers.
ConfigureOllamaClient(server_up) == IF server_up THEN Client ELSE NoClient

(* backend/metadata_processor.py: _prepare_text_for_ai,                    *)
(* _consolidate_publisher.                                                 *)

\* The values of "source" that start with "filename".
FilenameSources == {"filename_db_match", "filename_no_db_match"}

STR_starring == <<" ","s","t","a","r","r","i","n","g"," ">>

\* _prepare_text_for_ai: [raised, text].  parsed_info always holds the key
\* "title", so a title of None is what get() returns, and both the += and
\* the strip() raise on it.
PrepareTextForAi(parsed_info, current_actors_map, original_filename_with_ext) ==
    LET facts == DictValues(current_actors_map)
        from_filename == SelectSeq(facts, LAMBDA data :
                            /\ data.source \in FilenameSources
                            /\ data.canonical_name # <<>>)
        filename_actor_names == [i \in 1..Len(from_filename) |->
                                    from_filename[i].canonical_name]
        combined == Strip(IF filename_actor_names # <<>>
                          THEN parsed_info.title.val \o STR_starring
                               \o Join(<<",", " ">>, filename_actor_names)
                          ELSE parsed_info.title.val)
        text_for_ai == IF combined = <<>> THEN original_filename_with_ext
                       ELSE combined
    IN  IF ~parsed_info.title.some THEN [raised |-> TRUE, text |-> <<>>]
        ELSE [raised |-> FALSE,
              text |-> Strip(CollapseWhitespace(
                          ReplaceChar(ReplaceChar(ReplaceChar(text_for_ai,
                              "_", " "), ".", " "), "-", " ")))]

\* _consolidate_publisher
ConsolidatePublisher(parsed_publisher, llm_identified_publisher) ==
    IF Truthy(llm_identified_publisher) THEN llm_identified_publisher
    ELSE IF Truthy(parsed_publisher) THEN parsed_publisher
    ELSE NoneStr

-----------------------------------------------------------------------------
(* backend/actor_management.py: add_actor, add_alias;                      *)
(* backend/database_operations.py: update_video_record.                    *)

\* A bug that inserts the name without looking for it first.
AddActorWithoutSelect(db, reg, actor_name) ==
    IF Strip(actor_name) = <<>> THEN [raised |-> FALSE, id |-> NoId, reg |-> reg]
    ELSE IF db = "unreachable" THEN [raised |-> TRUE, id |-> NoId, reg |-> reg]
    ELSE IF db = "error" THEN [raised |-> FALSE, id |-> NoId, reg |-> reg]
    ELSE [raised |-> FALSE, id |-> Len(reg.actors) + 1,
          reg |-> [reg EXCEPT !.actors = Append(@, Strip(actor_name))]]

\* add_actor: [raised, id, reg]; id is NoId for None.
AddActor(db, reg, actor_name) ==
    LET normalized_name_for_check == Strip(actor_name)
        existing == SelectActorIdByName(reg, normalized_name_for_check)
    IN  IF normalized_name_for_check = <<>>
        THEN [raised |-> FALSE, id |-> NoId, reg |-> reg]
        ELSE IF db = "unreachable" THEN [raised |-> TRUE, id |-> NoId, reg |-> reg]
        ELSE IF db = "error" THEN [raised |-> FALSE, id |-> NoId, reg |-> reg]
        ELSE IF existing # NoId THEN [raised |-> FALSE, id |-> existing, reg |-> reg]
        ELSE [raised |-> FALSE, id |-> Len(reg.actors) + 1,
              reg |-> [reg EXCEPT !.actors = Append(@, normalized_name_for_check)]]

\* A bug that inserts the alias without looking for it first, in a table
\* that does not declare alias_name UNIQUE.
AddAliasWithoutSelect(db, reg, actor_id, alias_name) ==
    IF Strip(alias_name) = <<>> \/ actor_id = NoId
    THEN [raised |-> FALSE, added |-> FALSE, reg |-> reg]
    ELSE IF db = "unreachable" THEN [raised |-> TRUE, added |-> FALSE, reg |-> reg]
    ELSE IF db = "error" \/ actor_id \notin 1..Len(reg.actors)
    THEN [raised |-> FALSE, added |-> FALSE, reg |-> reg]
    ELSE [raised |-> FALSE, added |-> TRUE,
          reg |-> [reg EXCEPT !.aliases =
                      Append(@, [alias_name |-> Strip(alias_name),
                                 actor_id |-> actor_id])]]

\* add_alias: [raised, added, reg].
AddAlias(db, reg, actor_id, alias_name) ==
    LET normalized_alias_name == Strip(alias_name)
    IN  IF normalized_alias_name = <<>> \/ actor_id = NoId
        THEN [raised |-> FALSE, added |-> FALSE, reg |-> reg]
        ELSE IF db = "unreachable"
        THEN [raised |-> TRUE, added |-> FALSE, reg |-> reg]
        ELSE IF db = "error" \/ actor_id \notin 1..Len(reg.actors)
                \/ (\E k \in 1..Len(reg.aliases) :
                        reg.aliases[k].alias_name = normalized_alias_name)
        THEN [raised |-> FALSE, added |-> FALSE, reg |-> reg]
        ELSE [raised |-> FALSE, added |-> TRUE,
              reg |-> [reg EXCEPT !.aliases =
                          Append(@, [alias_name |-> normalized_alias_name,
                                     actor_id |-> actor_id])]]

\* The Record Store: videos[i] is the row with id i of table videos, and
\* video_actors the set of rows <<video_id, actor_id>>.
EmptyStore == [videos |-> <<>>, video_actors |-> {}]

\* SELECT id FROM videos WHERE filepath = ? (filepath is UNIQUE)
SelectVideoId(store, filepath) ==
    IF \E i \in 1..Len(store.videos) : store.videos[i].filepath = filepath
    THEN CHOOSE i \in 1..Len(store.videos) : store.videos[i].filepath = filepath
    ELSE 0

\* The rows executemany inserts into video_actors (lines 168-198): the ids
\* in list order up to the first one that breaks a constraint (an id that
\* is no actor, or a pair already inserted).
InsertedActorIds(reg, actors_list) ==
    LET with_id == SelectSeq(actors_list, LAMBDA actor : actor.id # NoId)
        fits(i) == /\ with_id[i].id \in 1..Len(reg.actors)
                   /\ \A j \in 1..(i - 1) : with_id[j].id # with_id[i].id
        n == Cardinality({i \in 1..Len(with_id) : \A j \in 1..i : fits(j)})
    IN  {with_id[i].id : i \in 1..n}

\* Optional[int]
NoneInt == [some |-> FALSE, val |-> 0]
SomeInt(n) == [some |-> TRUE, val |-> n]

\* The row of table videos a call writes (lines 93-128).
VideoRow(original_filepath, code, title, publisher, duration_seconds, standardized_filename) ==
    [filepath |-> original_filepath, code |-> code, title |-> title,
     publisher |-> publisher, duration_seconds |-> duration_seconds,
     standardized_filename |-> standardized_filename]

\* A bug that inserts a new row whether or not the filepath is stored.
UpdateVideoRecordAlwaysInserting(db, reg, store, original_filepath, code, title, publisher, duration_seconds, standardized_filename, actors_list) ==
    IF db # "ok" THEN [ok |-> FALSE, store |-> store]
    ELSE [ok |-> TRUE,
          store |-> [videos |-> Append(store.videos,
                                       VideoRow(original_filepath, code, title,
                                                publisher, duration_seconds,
                                                standardized_filename)),
                     video_actors |->
                         store.video_actors
                         \cup {<<Len(store.videos) + 1, id>> :
                                   id \in InsertedActorIds(reg, actors_list)}]]

\* A bug that deletes the associations of every video (a DELETE without
\* its WHERE clause) before it inserts those of the call.
UpdateVideoRecordClearingAllLinks(db, reg, store, original_filepath, code, title, publisher, duration_seconds, standardized_filename, actors_list) ==
    LET existing == SelectVideoId(store, original_filepath)
        video_id == IF existing # 0 THEN existing ELSE Len(store.videos) + 1
        row == VideoRow(original_filepath, code, title, publisher,
                        duration_seconds, standardized_filename)
    IN  IF db # "ok" THEN [ok |-> FALSE, store |-> store]
        ELSE [ok |-> TRUE,
              store |-> [videos |-> IF existing # 0
                                    THEN [store.videos EXCEPT ![existing] = row]
                                    ELSE Append(store.videos, row),
                         video_actors |->
                             {<<video_id, id>> :
                                  id \in InsertedActorIds(reg, actors_list)}]]

\* update_video_record: [ok, store].
UpdateVideoRecord(db, reg, store, original_filepath, code, title, publisher, duration_seconds, standardized_filename, actors_list) ==
    LET row == VideoRow(original_filepath, code, title, publisher,
                        duration_seconds, standardized_filename)
        existing == SelectVideoId(store, original_filepath)
        video_id == IF existing # 0 THEN existing ELSE Len(store.videos) + 1
        videos == IF existing # 0 THEN [store.videos EXCEPT ![existing] = row]
                  ELSE Append(store.videos, row)
        kept == {link \in store.video_actors : link[1] # video_id}
        added == {<<video_id, id>> : id \in InsertedActorIds(reg, actors_list)}
    IN  IF db # "ok" THEN [ok |-> FALSE, store |-> store]
        ELSE [ok |-> TRUE,
              store |-> [videos |-> videos, video_actors |-> kept \cup added]]

-----------------------------------------------------------------------------
(* backend/metadata_processor.py: process_video_file                       *)

\* A bug that passes every consolidated actor on, with or without id.
ActorsForDbAndFilenameUnfiltered(final_actors_list) == final_actors_list

\* actors_for_db_and_filename (lines 432-434)
ActorsForDbAndFilename(final_actors_list) ==
    SelectSeq(final_actors_list, LAMBDA actor : actor.id # NoId)

NoMetadata ==
    [code |-> NoneStr, title |-> <<>>, actors |-> <<>>, publisher |-> NoneStr,
     filepath |-> <<>>, standardized_filename |-> <<>>]

\* The exception handler (lines 465-470) and the missing file (329-331).
ProcessFailed(store) ==
    [is_none |-> TRUE, parsed_info |-> NoParse(<<>>),
     content_analysis_triggered |-> FALSE,
     consolidated_metadata |-> NoMetadata,
     called_name_builder |-> FALSE, called_update |-> FALSE,
     actors_passed |-> <<>>, update_ok |-> FALSE, store |-> store]

\* has_actors_from_filename (lines 359-364)
HasActorsFromFilename(actors_map) ==
    \/ \E i \in 1..Len(actors_map) : actors_map[i].value.id # NoId
    \/ \E i \in 1..Len(actors_map) :
           actors_map[i].value.source = "filename_no_db_match"

\* What one call of process_video_file does: whether it returns None, the
\* fields of the returned record, whether and with which actors it called
\* generate_standardized_filename and update_video_record, and the Record
\* Store it leaves.  The steps of the function are local operators, the
\* later step first.
ProcessVideoFile(db, reg, store, ollama_client, answers, video_filepath, exists) ==
    LET original_filename_with_ext == Basename(video_filepath)
        \* lines 447-464: update_video_record and the returned record
        StoreStep(parsed_info, run_content_analysis, final_title, final_actors_list, final_publisher, actors_for_db_and_filename, standardized_filename) ==
            LET updated == UpdateVideoRecord(db, reg, store, video_filepath,
                                             parsed_info.code, final_title,
                                             final_publisher, NoneInt,
                                             standardized_filename,
                                             actors_for_db_and_filename)
            IN  [is_none |-> FALSE, parsed_info |-> parsed_info,
                 content_analysis_triggered |-> run_content_analysis,
                 consolidated_metadata |->
                     [code |-> parsed_info.code, title |-> final_title,
                      actors |-> final_actors_list, publisher |-> final_publisher,
                      filepath |-> video_filepath,
                      standardized_filename |-> standardized_filename],
                 called_name_builder |-> TRUE, called_update |-> TRUE,
                 actors_passed |-> actors_for_db_and_filename,
                 update_ok |-> updated.ok, store |-> updated.store]
        \* lines 435-442: generate_standardized_filename on the copy of the
        \* metadata that holds actors_for_db_and_filename
        NameStep(parsed_info, run_content_analysis, final_title, final_actors_list, final_publisher, actors_for_db_and_filename) ==
            StoreStep(parsed_info, run_content_analysis, final_title,
                      final_actors_list, final_publisher,
                      actors_for_db_and_filename,
                      GenerateStandardizedFilename(
                          [code |-> parsed_info.code, publisher |-> final_publisher,
                           title |-> Some(final_title),
                           actors |-> actors_for_db_and_filename,
                           original_filename_for_fallback |->
                               Some(original_filename_with_ext)],
                          SplitExtExt(original_filename_with_ext)))
        \* lines 432-434
        FilterStep(parsed_info, run_content_analysis, final_title, final_actors_list, final_publisher) ==
            NameStep(parsed_info, run_content_analysis, final_title,
                     final_actors_list, final_publisher,
                     ActorsForDbAndFilename(final_actors_list))
        \* lines 391-406: the three consolidations; a lookup that raises in
        \* _consolidate_actors ends the call
        ConsolidateStep(parsed_info, actors_map, run_content_analysis, ai_enhancements) ==
            IF \E i \in 1..Len(ai_enhancements.llm_identified_actors) :
                   MergeRaises(db, reg, ai_enhancements.llm_identified_actors[i])
            THEN ProcessFailed(store)
            ELSE FilterStep(parsed_info, run_content_analysis,
                     ConsolidateTitle(parsed_info.title,
                                      ai_enhancements.llm_suggested_title,
                                      original_filename_with_ext),
                     ConsolidateActors(actors_map,
                                       ai_enhancements.llm_identified_actors,
                                       db, reg),
                     ConsolidatePublisher(NoneStr,
                                          ai_enhancements.llm_identified_publisher))
        \* lines 376-384: the content analysis, run or skipped
        AnalysisStep(parsed_info, actors_map, run_content_analysis) ==
            LET prepared == PrepareTextForAi(parsed_info, actors_map,
                                             original_filename_with_ext)
            IN  IF run_content_analysis /\ prepared.raised
                THEN ProcessFailed(store)
                ELSE ConsolidateStep(parsed_info, actors_map, run_content_analysis,
                         IF run_content_analysis
                         THEN EnhanceTextualMetadata(ollama_client, prepared.text,
                                                     original_filename_with_ext,
                                                     answers)
                         ELSE NoEnhancements)
        \* lines 366-370: run_content_analysis
        DecideStep(parsed_info, actors_map) ==
            AnalysisStep(parsed_info, actors_map,
                         ~(Truthy(parsed_info.title)
                           /\ HasActorsFromFilename(actors_map)
                           /\ Truthy(parsed_info.code)))
        \* lines 338-357: the loop over the filename actors; a lookup that
        \* raises ends the call
        LookupStep(parsed_info) ==
            IF \E i \in 1..Len(parsed_info.actors) :
                   MergeRaises(db, reg, parsed_info.actors[i])
            THEN ProcessFailed(store)
            ELSE DecideStep(parsed_info,
                            FilenameActorsMap(db, reg, parsed_info.actors))
    IN  IF ~exists THEN ProcessFailed(store)
        ELSE LookupStep(ParseFilename(original_filename_with_ext))

-----------------------------------------------------------------------------
(* State.                                                                  *)

VARIABLES
    \* one call of _consolidate_title: its arguments, its position, its result
    parsed_title, llm_suggested_title, fallback_filename_part, title_pc, final_title,
    \* one consolidation pass over the actors: the database and registry it
    \* reads, the filename and LLM actor names, the loop counters, the dict
    \* actors_map, the position and the resulting list
    pass_db, pass_registry, parsed_actors, llm_identified_actors,
    fn_i, llm_i, actors_map, actors_pc, final_actors_list,
    \* one call of generate_standardized_filename: its arguments, its
    \* position, and its locals and result
    name_meta, name_extension, name_pc, name_out,
    \* the running system: the condition of the database file, the Name
    \* Registry and the Record Store it holds, the module globals
    \* ollama_client of llm_analyzer and of content_analysis, and the last
    \* process_video_file call with its outcome
    db_condition, registry, record_store,
    llm_analyzer_client, content_analysis_client,
    process_calls, process_call, process_result,
    \* one call of parse_filename: its argument, its position, its result
    parse_filename_string, parse_pc, parse_result,
    \* one call of enhance_textual_metadata: the module global ollama_client
    \* it reads, its arguments, what the LLM answers to its prompts, its
    \* position and the dict it returns
    insight_client, insight_text_input, insight_original_filename,
    insight_answers, insight_pc, insight_results,
    \* direct calls of update_video_record: the condition of the database
    \* file, the rows of table actors, the Record Store, the number of calls
    \* made, and the last call with the store it found and what it returned
    store_db, store_registry, store, update_calls, update_call,
    \* concurrent add_actor calls on one healthy database: the committed
    \* rows of table actors, the caller that holds the write lock of the
    \* database file, and for each caller its argument, its position, the
    \* id lastrowid gave it, and what it returned
    shared_actors, write_lock, adder_name, adder_pc, adder_new_actor_id,
    adder_return

title_vars == <<parsed_title, llm_suggested_title, fallback_filename_part,
                title_pc, final_title>>

actors_vars == <<pass_db, pass_registry, parsed_actors, llm_identified_actors,
                 fn_i, llm_i, actors_map, actors_pc, final_actors_list>>

name_vars == <<name_meta, name_extension, name_pc, name_out>>

system_vars == <<db_condition, registry, record_store, llm_analyzer_client,
                 content_analysis_client, process_calls, process_call,
                 process_result>>

parse_vars == <<parse_filename_string, parse_pc, parse_result>>

insight_vars == <<insight_client, insight_text_input, insight_original_filename,
                  insight_answers, insight_pc, insight_results>>

store_vars == <<store_db, store_registry, store, update_calls, update_call>>

race_vars == <<shared_actors, write_lock, adder_name, adder_pc,
               adder_new_actor_id, adder_return>>

vars == <<title_vars, actors_vars, name_vars, system_vars, parse_vars,
          insight_vars, store_vars, race_vars>>

-----------------------------------------------------------------------------
(* Inputs.                                                                 *)

STR_MyGreatMovie == <<"M","y"," ","G","r","e","a","t"," ","M","o","v","i","e">>
STR_MyMovieLower == <<"m","y"," ","m","o","v","i","e">>
STR_Movie == <<"M","o","v","i","e">>
STR_Film == <<"F","i","l","m">>
STR_12345 == <<"1","2","3","4","5">>
STR_UntitledClip == <<"U","n","t","i","t","l","e","d"," ","C","l","i","p">>
STR_LonelyRobot == <<"L","o","n","e","l","y"," ","R","o","b","o","t">>
STR_R2 == <<"R","2">>
EXT_mp4 == <<".","m","p","4">>

FilenameWords == { <<"m","y">>, STR_Movie, <<"1","2","3">>, <<"m","o","v","i","e">> }
FilenameSeparators == { <<" ">>, <<"_">>, <<"_","_">>, <<"-">> }

\* The bases made of n words joined by separators.
RECURSIVE FilenameBases(_)
FilenameBases(n) ==
    IF n = 0 THEN {}
    ELSE FilenameWords
         \cup { b \o sep \o w : b \in FilenameBases(n - 1),
                                sep \in FilenameSeparators, w \in FilenameWords }

SpecialFilenames ==
    { STR_MyGreatMovie \o EXT_mp4,
      <<"M","Y"," ","G","R","E","A","T"," ","M","O","V","I","E">> \o EXT_mp4,
      <<"M","y",".","G","r","e","a","t",".","M","o","v","i","e",".","m","k","v">>,
      <<"-","m","y","_","m","o","v","i","e","-">> \o EXT_mp4,
      <<"1","2","3","4","5",".","a","v","i">>,
      <<"?">> \o EXT_mp4,
      <<" ">> \o EXT_mp4,
      EXT_mp4,
      <<>> }

OriginalFilenames ==
    { b \o e : b \in FilenameBases(MaxWords), e \in {EXT_mp4, <<>>} }
    \cup SpecialFilenames

ParsedTitleSamples ==
    { STR_MyGreatMovie, STR_MyMovieLower, STR_Movie, STR_Film, STR_12345,
      STR_UntitledClip, <<" ">>, <<>> }

LlmTitles == { NoneStr, Some(STR_LonelyRobot), Some(STR_R2) }

\* Bounds on the lists of one consolidation pass.
MaxParsedActors == 2
MaxLlmActors == 2

STR_JohnDoe == <<"J","o","h","n"," ","D","o","e">>
STR_JOHNDOE == <<"J","O","H","N"," ","D","O","E">>
STR_johndoe == <<"j","o","h","n"," ","d","o","e">>
STR_JDoe == <<"J"," ","D","o","e">>
STR_JaneRoe == <<"J","a","n","e"," ","R","o","e">>
STR_MaxRoe == <<"M","a","x"," ","R","o","e">>

\* Registry contents that add_actor and add_alias can build.
SampleRegistries ==
    { EmptyRegistry,
      [actors |-> <<STR_JohnDoe>>, aliases |-> <<>>],
      [actors |-> <<STR_JohnDoe, STR_JaneRoe>>,
       aliases |-> << [alias_name |-> STR_JDoe, actor_id |-> 1],
                      [alias_name |-> STR_johndoe, actor_id |-> 1] >>],
      [actors |-> <<STR_JaneRoe, STR_JohnDoe>>,
       aliases |-> << [alias_name |-> STR_MaxRoe, actor_id |-> 1] >>] }

\* All sequences over S of length at most n.
RECURSIVE SeqsUpTo(_, _)
SeqsUpTo(S, n) ==
    IF n = 0 THEN {<<>>}
    ELSE SeqsUpTo(S, n - 1)
         \cup { Append(q, x) : q \in {r \in SeqsUpTo(S, n - 1) : Len(r) = n - 1}, x \in S }

\* Names the filename parser can return: each starts with an upper-case
\* letter, and a list holds no two names equal ignoring case.
ParsedActorNames == { STR_JohnDoe, STR_JOHNDOE, STR_JDoe, STR_JaneRoe, STR_MaxRoe }
ParsedActorLists ==
    { q \in SeqsUpTo(ParsedActorNames, MaxParsedActors) :
        \A i, j \in 1..Len(q) : i # j => Lower(q[i]) # Lower(q[j]) }

\* Names enhance_textual_metadata can return: trimmed, at least two words.
LlmActorNames == { STR_JohnDoe, STR_johndoe, STR_JDoe, STR_JaneRoe, STR_MaxRoe }
LlmActorLists == SeqsUpTo(LlmActorNames, MaxLlmActors)

-----------------------------------------------------------------------------
(* Inputs of generate_standardized_filename.                               *)

\* c * n
Repeat(c, n) == [i \in 1..n |-> c]

STR_ABC123 == <<"A","B","C","-","1","2","3">>
STR_StudioX == <<"S","t","u","d","i","o"," ","X">>
STR_MyTitle == <<"M","y"," ","T","i","t","l","e">>
STR_weird_file == <<"w","e","i","r","d","_","f","i","l","e">>

\* A title with a forbidden character and a run of whitespace.
STR_T_1 == <<"T",":"," ","\t","1">>
\* A canonical name with a forbidden character and a run of whitespace.
STR_JaneRoeRaw == <<"J","a","n","e"," "," ","R","|","o","e">>
\* A title two characters longer than max_len whose last three characters
\* up to the cut are " - ".
STR_LongDashed == Repeat("T", max_len - 3) \o <<" ","-"," ","x","y">>

\* Bound on the actors list handed to the name builder.
MaxNameActors == 2

NameCodes ==
    { NoneStr, Some(<<>>), Some(STR_ABC123), Some(<<"A","?">>),
      Some(Repeat("A", max_len - 1)) }

NamePublishers == { NoneStr, Some(STR_StudioX), Some(Repeat("B", max_len - 1)) }

NameTitles ==
    { NoneStr, Some(<<>>), Some(<<" ">>), Some(STR_MyTitle), Some(STR_UnknownTitle),
      Some(STR_T_1), Some(Repeat("_", max_len + 1)), Some(STR_LongDashed) }

NameActorFacts ==
    { ActorFact(1, STR_JohnDoe, "filename_db_match"),
      ActorFact(2, STR_JaneRoeRaw, "llm_db_match"),
      ActorFact(3, <<>>, "filename_db_match") }

NameActorLists == SeqsUpTo(NameActorFacts, MaxNameActors)

\* original_filename_for_fallback; NoneStr stands for a missing key.
NameFallbacks ==
    { NoneStr, Some(STR_weird_file \o EXT_mp4), Some(<<" ">> \o EXT_mp4),
      Some(<<"?">> \o EXT_mp4) }

NameExtensions == { EXT_mp4, <<>> }

-----------------------------------------------------------------------------
(* Inputs of the running system.                                           *)

\* Bounds: rows of table actors, rows of table actor_aliases, and
\* process_video_file calls in one behaviour.
MaxActors == 2
MaxAliases == 1
MaxProcessCalls == 1

\* Names handed to add_actor, and aliases handed to add_alias.
ActorNameInputs == { STR_JohnDoe, STR_JaneRoe, <<" ">> }
AliasNameInputs == { STR_JDoe, STR_MaxRoe }

\* A name with whitespace around it.
STR_JohnDoePadded == <<" ">> \o STR_JohnDoe \o <<" ", "\t">>

\* Names handed to add_actor and to add_alias when the registry operations
\* run on their own: a name can be the alias of one actor and then be
\* added as an actor.
RegistryNameInputs == { STR_JohnDoe, STR_JaneRoe, STR_JDoe, <<" ">> }

\* Bound: rows of table actor_aliases when the registry operations run on
\* their own.
MaxRegistryAliases == 2

STR_TheTitle == <<"T","h","e"," ","T","i","t","l","e">>
STR_SomeMovie == <<"s","o","m","e"," ","m","o","v","i","e">>
STR_Dash == <<" ","-"," ">>

\* Paths handed to process_video_file.
VideoPaths ==
    { STR_Movie \o STR_Dash \o STR_JohnDoe \o EXT_mp4,
      <<"/","v","/">> \o STR_Movie \o STR_Dash \o STR_JaneRoe \o EXT_mp4,
      Bracketed(STR_ABC123) \o EXT_mp4,
      STR_SomeMovie \o EXT_mp4,
      Bracketed(STR_ABC123) \o <<" ">> \o STR_TheTitle \o STR_Dash
          \o STR_JohnDoe \o <<",", " ">> \o STR_MaxRoe \o EXT_mp4,
      Bracketed(STR_ABC123) \o <<" ">> \o STR_MyTitle \o STR_Dash
          \o STR_JDoe \o EXT_mp4,
      <<"T","i","t","l","e","_">> \o <<"J","a","n","e","_","R","o","e">> \o EXT_mp4,
      <<"T","i","t","l","e"," ">> \o STR_JaneRoe \o <<".","m","k","v">>,
      EXT_mp4 }

\* What the LLM would answer to the three prompts.
LlmAnswers ==
    { NoAnswers,
      [publisher |-> Some(STR_StudioX),
       actors |-> Some(STR_JohnDoe \o <<"\n">> \o STR_MaxRoe),
       title |-> Some(STR_LonelyRobot)] }

-----------------------------------------------------------------------------
(* Inputs of parse_filename.                                               *)

STR_hidden == <<".","h","i","d","d","e","n">>

STR_Show == <<"S","h","o","w">>

\* Names whose only token ends in an episode, part, volume, chapter or
\* scene marker and digits.
MarkerFilenames ==
    { STR_Show \o tail \o EXT_mp4 :
        tail \in { <<"_","e","p","0","1">>, <<"-","p","a","r","t","2">>,
                   <<"_","s","c","e","n","e","1">>,
                   <<"_","v","o","l","u","m","e","3">>,
                   <<"_","E","P","I","S","O","D","E","1","2">>,
                   <<"_","C","h","a","p","t","e","r","4">>,
                   <<"_","s","c","1">>, <<"-","V","o","l","7">> } }

\* Names that end in two capitalized atoms, one of them a stop-word or
\* both of them names, with an underscore or a space before and between
\* the atoms.
SuffixFilenames ==
    { <<"S","u","c","h"," ","A"," ","D","a","y">> \o EXT_mp4,
      <<"M","o","v","i","e","_","A","_","S","m","i","t","h">> \o EXT_mp4,
      <<"K","i","s","s"," ","O","f"," ","D","e","a","t","h">> \o EXT_mp4,
      <<"M","o","v","i","e"," ","T","h","e"," ","E","n","d">> \o EXT_mp4,
      <<"M","o","v","i","e"," ","S","m","i","t","h"," ","A","n","d">> \o EXT_mp4,
      <<"T","i","t","l","e","_","J","a","n","e"," ","R","o","e">> \o EXT_mp4,
      <<"T","i","t","l","e"," ","J","a","n","e","_","R","o","e">> \o EXT_mp4 }

\* File names handed to parse_filename: the generated names, the names of
\* the processed paths, hidden files, names made of separators only,
\* names without an extension, names ending in a marker, and names ending
\* in capitalized atoms.
ParseFilenameInputs ==
    OriginalFilenames
    \cup { Basename(path) : path \in VideoPaths }
    \cup { STR_hidden \o EXT_mp4, STR_hidden, <<".">>,
           <<"_">> \o EXT_mp4, <<"-"," ","-"," ","-">> \o EXT_mp4,
           <<"\t">> \o EXT_mp4,
           Bracketed(STR_ABC123) \o <<" ">> \o STR_TheTitle \o EXT_mp4 }
    \cup MarkerFilenames \cup SuffixFilenames

-----------------------------------------------------------------------------
(* Inputs of enhance_textual_metadata.                                     *)

STR_FiveWords ==
    <<"o","n","e"," ","t","w","o"," ","t","h","r","e","e"," ",
      "f","o","u","r"," ","f","i","v","e">>

InsightTexts == { <<>>, <<" ">>, STR_MyTitle, STR_FiveWords }

InsightFilenames ==
    { <<>>, STR_SomeMovie \o EXT_mp4,
      Bracketed(STR_ABC123) \o <<" ">> \o STR_MyTitle \o EXT_mp4 }

\* What analyze_text_with_llm returns; NoneStr is a failed request.
PublisherAnswers ==
    { NoneStr, Some(<<>>), Some(<<" ","N","o","n","e"," ">>),
      Some(<<"N","/","A">>), Some(STR_StudioX) }

ActorsAnswers ==
    { NoneStr, Some(STR_none), Some(<<"C","h","e","r">>),
      Some(STR_JohnDoe \o <<"\n">> \o STR_MaxRoe) }

TitleAnswers ==
    { NoneStr, Some(<<"N","O","N","E">>), Some(STR_na),
      Some(<<" ">> \o STR_LonelyRobot \o <<" ">>) }

-----------------------------------------------------------------------------
(* Inputs of direct update_video_record calls.                             *)

\* Bounds: update_video_record calls in one behaviour, and entries of one
\* actors_list.
MaxUpdateCalls == 2
MaxActorIds == 2

\* An id that is no row of table actors.
GhostActorId == 999

\* The rows of table actors the calls find.
SampleRegistry == [actors |-> <<STR_JohnDoe, STR_JaneRoe>>, aliases |-> <<>>]

StorePaths == { <<"/","v","/","a">> \o EXT_mp4, <<"/","v","/","b">> \o EXT_mp4 }

\* code, title, publisher, duration_seconds and standardized_filename of a
\* call.
VideoDataInputs ==
    { [code |-> Some(STR_ABC123), title |-> Some(STR_MyTitle),
       publisher |-> Some(STR_StudioX), duration_seconds |-> SomeInt(70),
       standardized_filename |-> Some(Bracketed(STR_ABC123) \o EXT_mp4)],
      [code |-> NoneStr, title |-> Some(STR_TheTitle),
       publisher |-> NoneStr, duration_seconds |-> NoneInt,
       standardized_filename |-> Some(STR_TheTitle \o EXT_mp4)] }

\* The "id" of the entries of an actors_list; NoId is an entry without id.
ActorIdInputs == { NoId, 1, 2, GhostActorId }

\* The actors_list whose entries carry these ids.
ActorsWithIds(ids) ==
    [i \in 1..Len(ids) |-> ActorFact(ids[i], <<>>, "filename_db_match")]

\* Longer lists: an id repeated before another one, and a missing id
\* before two existing ones.
LongerIdLists == { <<1, 1, 2>>, <<GhostActorId, 1, 2>> }

ActorsListInputs ==
    { ActorsWithIds(ids) :
          ids \in SeqsUpTo(ActorIdInputs, MaxActorIds) \cup LongerIdLists }

-----------------------------------------------------------------------------
(* Inputs of concurrent add_actor calls.                                   *)

\* The two callers.
Callers == {1, 2}

\* The names they add: one name, the same name with whitespace around it,
\* another name, and a name of whitespace.
RaceNames == { STR_JohnDoe, STR_JohnDoePadded, STR_JaneRoe, <<" ">> }

\* The rows of table actors when the calls start.
RaceRegistries == { <<>>, <<STR_JaneRoe>> }

-----------------------------------------------------------------------------
(* _consolidate_title as a one-step machine over its arguments.            *)

TitleIdle ==
    /\ parsed_title = NoneStr
    /\ llm_suggested_title = NoneStr
    /\ fallback_filename_part = <<>>
    /\ title_pc = "idle"
    /\ final_title = <<>>

TitleInit ==
    /\ fallback_filename_part \in OriginalFilenames
    /\ parsed_title \in {NoneStr}
                        \cup {Some(t) : t \in ParsedTitleSamples}
                        \cup {NormalizeTitle(RsplitDotBase(fallback_filename_part), NoneStr)}
    /\ llm_suggested_title \in LlmTitles
    /\ title_pc = "call"
    /\ final_title = <<>>

CallConsolidateTitle ==
    /\ title_pc = "call"
    /\ final_title' = ConsolidateTitle(parsed_title, llm_suggested_title,
                                       fallback_filename_part)
    /\ title_pc' = "done"
    /\ UNCHANGED <<parsed_title, llm_suggested_title, fallback_filename_part>>
    /\ UNCHANGED <<actors_vars, name_vars, system_vars,
                   parse_vars, insight_vars, store_vars,
                   race_vars>>

-----------------------------------------------------------------------------
(* One consolidation pass over the actors, one loop iteration per step:    *)
(* process_video_file lines 338-357, then _consolidate_actors.             *)

ActorsIdle ==
    /\ pass_db = "ok"
    /\ pass_registry = EmptyRegistry
    /\ parsed_actors = <<>>
    /\ llm_identified_actors = <<>>
    /\ fn_i = 1
    /\ llm_i = 1
    /\ actors_map = <<>>
    /\ actors_pc = "idle"
    /\ final_actors_list = <<>>

ActorsInit ==
    /\ pass_db \in DbStates
    /\ pass_registry \in SampleRegistries
    /\ parsed_actors \in ParsedActorLists
    /\ llm_identified_actors \in LlmActorLists
    /\ fn_i = 1
    /\ llm_i = 1
    /\ actors_map = <<>>
    /\ actors_pc = "filename"
    /\ final_actors_list = <<>>

StepFilenameActor ==
    /\ actors_pc = "filename"
    /\ fn_i <= Len(parsed_actors)
    /\ IF MergeRaises(pass_db, pass_registry, parsed_actors[fn_i])
       THEN /\ actors_pc' = "raised"
            /\ UNCHANGED <<actors_map, fn_i>>
       ELSE /\ actors_map' = MergeFilenameActor(actors_map, pass_db, pass_registry,
                                                parsed_actors[fn_i])
            /\ fn_i' = fn_i + 1
            /\ UNCHANGED actors_pc
    /\ UNCHANGED <<pass_db, pass_registry, parsed_actors, llm_identified_actors,
                   llm_i, final_actors_list>>
    /\ UNCHANGED <<title_vars, name_vars, system_vars,
                   parse_vars, insight_vars, store_vars,
                   race_vars>>

EndFilenameActors ==
    /\ actors_pc = "filename"
    /\ fn_i > Len(parsed_actors)
    /\ actors_pc' = "llm"
    /\ UNCHANGED <<pass_db, pass_registry, parsed_actors, llm_identified_actors,
                   fn_i, llm_i, actors_map, final_actors_list>>
    /\ UNCHANGED <<title_vars, name_vars, system_vars,
                   parse_vars, insight_vars, store_vars,
                   race_vars>>

StepLlmActor ==
    /\ actors_pc = "llm"
    /\ llm_i <= Len(llm_identified_actors)
    /\ IF MergeRaises(pass_db, pass_registry, llm_identified_actors[llm_i])
       THEN /\ actors_pc' = "raised"
            /\ UNCHANGED <<actors_map, llm_i>>
       ELSE /\ actors_map' = MergeLlmActor(actors_map, pass_db, pass_registry,
                                           llm_identified_actors[llm_i])
            /\ llm_i' = llm_i + 1
            /\ UNCHANGED actors_pc
    /\ UNCHANGED <<pass_db, pass_registry, parsed_actors, llm_identified_actors,
                   fn_i, final_actors_list>>
    /\ UNCHANGED <<title_vars, name_vars, system_vars,
                   parse_vars, insight_vars, store_vars,
                   race_vars>>

EndLlmActors ==
    /\ actors_pc = "llm"
    /\ llm_i > Len(llm_identified_actors)
    /\ final_actors_list' = DictValues(actors_map)
    /\ actors_pc' = "done"
    /\ UNCHANGED <<pass_db, pass_registry, parsed_actors, llm_identified_actors,
                   fn_i, llm_i, actors_map>>
    /\ UNCHANGED <<title_vars, name_vars, system_vars,
                   parse_vars, insight_vars, store_vars,
                   race_vars>>

NextActors ==
    \/ StepFilenameActor
    \/ EndFilenameActors
    \/ StepLlmActor
    \/ EndLlmActors

-----------------------------------------------------------------------------
(* generate_standardized_filename as a one-step machine over its           *)
(* arguments.                                                              *)

NoNameOut ==
    [code_publisher_str |-> <<>>, title_segment |-> <<>>, assembled |-> <<>>,
     after_fallback |-> <<>>, base_name |-> <<>>, filename |-> <<>>]

NameIdle ==
    /\ name_meta = [code |-> NoneStr, publisher |-> NoneStr, title |-> NoneStr,
                    actors |-> <<>>, original_filename_for_fallback |-> NoneStr]
    /\ name_extension = <<>>
    /\ name_pc = "idle"
    /\ name_out = NoNameOut

NameInit ==
    /\ name_meta \in [code : NameCodes, publisher : NamePublishers,
                       title : NameTitles, actors : NameActorLists,
                       original_filename_for_fallback : NameFallbacks]
    /\ name_extension \in NameExtensions
    /\ name_pc = "call"
    /\ name_out = NoNameOut

CallGenerateStandardizedFilename ==
    /\ name_pc = "call"
    /\ name_out' = StandardizedName(name_meta, name_extension)
    /\ name_pc' = "done"
    /\ UNCHANGED <<name_meta, name_extension>>
    /\ UNCHANGED <<title_vars, actors_vars, system_vars,
                   parse_vars, insight_vars, store_vars,
                   race_vars>>

-----------------------------------------------------------------------------
(* The running system: the registry operations, the LLM client set-up and *)
(* process_video_file, each call one step.                                 *)

NoCall == [made |-> FALSE, video_filepath |-> <<>>, exists |-> FALSE]

NoProcessResult ==
    [is_none |-> TRUE, parsed_info |-> NoParse(<<>>),
     content_analysis_triggered |-> FALSE, consolidated_metadata |-> NoMetadata,
     called_name_builder |-> FALSE, called_update |-> FALSE,
     actors_passed |-> <<>>, update_ok |-> FALSE]

SystemIdle ==
    /\ db_condition = "ok"
    /\ registry = EmptyRegistry
    /\ record_store = EmptyStore
    /\ llm_analyzer_client = NoClient
    /\ content_analysis_client = NoClient
    /\ process_calls = 0
    /\ process_call = NoCall
    /\ process_result = NoProcessResult

\* After start-up: the tables exist and are empty, llm_analyzer has set its
\* global to None, and content_analysis has imported that value.
SystemInit ==
    /\ db_condition \in DbStates
    /\ registry = EmptyRegistry
    /\ record_store = EmptyStore
    /\ llm_analyzer_client = NoClient
    /\ content_analysis_client = llm_analyzer_client
    /\ process_calls = 0
    /\ process_call = NoCall
    /\ process_result = NoProcessResult

\* The database file becomes readable, unusable or unreachable.
DatabaseBecomes(condition) ==
    /\ condition # db_condition
    /\ db_condition' = condition
    /\ UNCHANGED <<registry, record_store, llm_analyzer_client,
                   content_analysis_client, process_calls, process_call,
                   process_result>>
    /\ UNCHANGED <<title_vars, actors_vars, name_vars,
                   parse_vars, insight_vars, store_vars,
                   race_vars>>

CallAddActor(actor_name) ==
    /\ Len(AddActor(db_condition, registry, actor_name).reg.actors) <= MaxActors
    /\ registry' = AddActor(db_condition, registry, actor_name).reg
    /\ UNCHANGED <<db_condition, record_store, llm_analyzer_client,
                   content_analysis_client, process_calls, process_call,
                   process_result>>
    /\ UNCHANGED <<title_vars, actors_vars, name_vars,
                   parse_vars, insight_vars, store_vars,
                   race_vars>>

\* add_alias, in a behaviour with at most max_aliases rows of actor_aliases.
CallAddAliasUpTo(max_aliases, actor_id, alias_name) ==
    /\ Len(AddAlias(db_condition, registry, actor_id, alias_name).reg.aliases)
           <= max_aliases
    /\ registry' = AddAlias(db_condition, registry, actor_id, alias_name).reg
    /\ UNCHANGED <<db_condition, record_store, llm_analyzer_client,
                   content_analysis_client, process_calls, process_call,
                   process_result>>
    /\ UNCHANGED <<title_vars, actors_vars, name_vars,
                   parse_vars, insight_vars, store_vars,
                   race_vars>>

CallAddAlias(actor_id, alias_name) ==
    CallAddAliasUpTo(MaxAliases, actor_id, alias_name)

\* configure_ollama_client assigns the global of llm_analyzer; the name
\* content_analysis imported keeps the value it was bound to.
CallConfigureOllamaClient(server_up) ==
    /\ llm_analyzer_client' = ConfigureOllamaClient(server_up)
    /\ UNCHANGED <<db_condition, registry, record_store, content_analysis_client,
                   process_calls, process_call, process_result>>
    /\ UNCHANGED <<title_vars, actors_vars, name_vars,
                   parse_vars, insight_vars, store_vars,
                   race_vars>>

CallProcessVideoFile(video_filepath, exists, answers) ==
    /\ process_calls < MaxProcessCalls
    /\ LET out == ProcessVideoFile(db_condition, registry, record_store,
                                   content_analysis_client, answers,
                                   video_filepath, exists)
       IN  /\ process_result' =
                 [is_none |-> out.is_none, parsed_info |-> out.parsed_info,
                  content_analysis_triggered |-> out.content_analysis_triggered,
                  consolidated_metadata |-> out.consolidated_metadata,
                  called_name_builder |-> out.called_name_builder,
                  called_update |-> out.called_update,
                  actors_passed |-> out.actors_passed,
                  update_ok |-> out.update_ok]
           /\ record_store' = out.store
    /\ process_call' = [made |-> TRUE, video_filepath |-> video_filepath,
                        exists |-> exists]
    /\ process_calls' = process_calls + 1
    /\ UNCHANGED <<db_condition, registry, llm_analyzer_client,
                   content_analysis_client>>
    /\ UNCHANGED <<title_vars, actors_vars, name_vars,
                   parse_vars, insight_vars, store_vars,
                   race_vars>>

Next ==
    \/ \E condition \in DbStates : DatabaseBecomes(condition)
    \/ \E actor_name \in ActorNameInputs : CallAddActor(actor_name)
    \/ \E actor_id \in 0..MaxActors, alias_name \in AliasNameInputs :
           CallAddAlias(actor_id, alias_name)
    \/ \E server_up \in BOOLEAN : CallConfigureOllamaClient(server_up)
    \/ \E video_filepath \in VideoPaths, exists \in BOOLEAN, answers \in LlmAnswers :
           CallProcessVideoFile(video_filepath, exists, answers)

\* The registry operations on their own.
NextRegistry ==
    \/ \E condition \in DbStates : DatabaseBecomes(condition)
    \/ \E actor_name \in RegistryNameInputs : CallAddActor(actor_name)
    \/ \E actor_id \in 0..MaxActors, alias_name \in RegistryNameInputs :
           CallAddAliasUpTo(MaxRegistryAliases, actor_id, alias_name)

-----------------------------------------------------------------------------
(* parse_filename as a one-step machine over its argument.                 *)

ParseIdle ==
    /\ parse_filename_string = <<>>
    /\ parse_pc = "idle"
    /\ parse_result = NoParse(<<>>)

ParseInit ==
    /\ parse_filename_string \in ParseFilenameInputs
    /\ parse_pc = "call"
    /\ parse_result = NoParse(<<>>)

CallParseFilename ==
    /\ parse_pc = "call"
    /\ parse_result' = ParseFilename(parse_filename_string)
    /\ parse_pc' = "done"
    /\ UNCHANGED parse_filename_string
    /\ UNCHANGED <<title_vars, actors_vars, name_vars, system_vars,
                   insight_vars, store_vars,
                   race_vars>>

-----------------------------------------------------------------------------
(* enhance_textual_metadata as a one-step machine over the module global   *)
(* it reads, its arguments and the LLM's answers.                          *)

InsightIdle ==
    /\ insight_client = NoClient
    /\ insight_text_input = <<>>
    /\ insight_original_filename = <<>>
    /\ insight_answers = NoAnswers
    /\ insight_pc = "idle"
    /\ insight_results = NoEnhancements

InsightInit ==
    /\ insight_client \in {NoClient, Client}
    /\ insight_text_input \in InsightTexts
    /\ insight_original_filename \in InsightFilenames
    /\ insight_answers \in [publisher : PublisherAnswers, actors : ActorsAnswers,
                            title : TitleAnswers]
    /\ insight_pc = "call"
    /\ insight_results = NoEnhancements

CallEnhanceTextualMetadata ==
    /\ insight_pc = "call"
    /\ insight_results' =
           EnhanceTextualMetadata(insight_client, insight_text_input,
                                  insight_original_filename, insight_answers)
    /\ insight_pc' = "done"
    /\ UNCHANGED <<insight_client, insight_text_input,
                   insight_original_filename, insight_answers>>
    /\ UNCHANGED <<title_vars, actors_vars, name_vars, system_vars,
                   parse_vars, store_vars,
                   race_vars>>

-----------------------------------------------------------------------------
(* update_video_record called directly on a database that holds two        *)
(* actors.                                                                 *)

NoUpdateCall ==
    [made |-> FALSE, original_filepath |-> <<>>,
     data |-> [code |-> NoneStr, title |-> NoneStr, publisher |-> NoneStr,
               duration_seconds |-> NoneInt, standardized_filename |-> NoneStr],
     actors_list |-> <<>>, store_before |-> EmptyStore, ok |-> FALSE]

StoreIdle ==
    /\ store_db = "ok"
    /\ store_registry = EmptyRegistry
    /\ store = EmptyStore
    /\ update_calls = 0
    /\ update_call = NoUpdateCall

StoreInit ==
    /\ store_db \in DbStates
    /\ store_registry = SampleRegistry
    /\ store = EmptyStore
    /\ update_calls = 0
    /\ update_call = NoUpdateCall

\* What update_video_record returns and leaves in the store for these
\* arguments.
UpdateResult(original_filepath, data, actors_list) ==
    UpdateVideoRecord(store_db, store_registry, store, original_filepath,
                      data.code, data.title, data.publisher,
                      data.duration_seconds, data.standardized_filename,
                      actors_list)

CallUpdateVideoRecord(original_filepath, data, actors_list) ==
    /\ update_calls < MaxUpdateCalls
    /\ store' = UpdateResult(original_filepath, data, actors_list).store
    /\ update_call' =
           [made |-> TRUE, original_filepath |-> original_filepath,
            data |-> data, actors_list |-> actors_list, store_before |-> store,
            ok |-> UpdateResult(original_filepath, data, actors_list).ok]
    /\ update_calls' = update_calls + 1
    /\ UNCHANGED <<store_db, store_registry>>
    /\ UNCHANGED <<title_vars, actors_vars, name_vars, system_vars,
                   parse_vars, insight_vars,
                   race_vars>>

NextStore ==
    \E original_filepath \in StorePaths, data \in VideoDataInputs,
       actors_list \in ActorsListInputs :
        CallUpdateVideoRecord(original_filepath, data, actors_list)

-----------------------------------------------------------------------------
(* add_actor called by two callers at once on a healthy database, one step *)
(* per statement.  Each caller has its own connection; the SELECT reads    *)
(* the committed rows, the INSERT takes the write lock of the database     *)
(* file and waits while another connection holds it, and leaving the with  *)
(* block commits.                                                          *)

NoReturn == [returned |-> FALSE, id |-> NoId, by |-> "none"]

Returns(actor_id, by) == [returned |-> TRUE, id |-> actor_id, by |-> by]

\* A table without the UNIQUE constraint on name.
NoUniqueConstraint(rows, name) == FALSE

\* name TEXT UNIQUE NOT NULL: whether an INSERT of the name raises
\* IntegrityError.
BreaksUniqueName(rows, name) == \E i \in 1..Len(rows) : rows[i] = name

\* SELECT id FROM actors WHERE name = ? on the committed rows.
CommittedId(name) ==
    SelectActorIdByName([actors |-> shared_actors, aliases |-> <<>>], name)

RaceIdle ==
    /\ shared_actors = <<>>
    /\ write_lock = 0
    /\ adder_name = [caller \in Callers |-> <<>>]
    /\ adder_pc = [caller \in Callers |-> "idle"]
    /\ adder_new_actor_id = [caller \in Callers |-> NoId]
    /\ adder_return = [caller \in Callers |-> NoReturn]

RaceInit ==
    /\ shared_actors \in RaceRegistries
    /\ write_lock = 0
    /\ adder_name \in [Callers -> RaceNames]
    /\ adder_pc = [caller \in Callers |-> "select"]
    /\ adder_new_actor_id = [caller \in Callers |-> NoId]
    /\ adder_return = [caller \in Callers |-> NoReturn]

\* Lines 56-65: the check of the name, then the SELECT and the return of
\* the row it finds.
SelectStep(caller) ==
    /\ adder_pc[caller] = "select"
    /\ LET normalized_name_for_check == Strip(adder_name[caller])
       IN  IF normalized_name_for_check = <<>>
           THEN /\ adder_return' = [adder_return EXCEPT ![caller] =
                                       Returns(NoId, "empty")]
                /\ adder_pc' = [adder_pc EXCEPT ![caller] = "done"]
           ELSE IF CommittedId(normalized_name_for_check) # NoId
           THEN /\ adder_return' =
                       [adder_return EXCEPT ![caller] =
                           Returns(CommittedId(normalized_name_for_check), "row")]
                /\ adder_pc' = [adder_pc EXCEPT ![caller] = "done"]
           ELSE /\ adder_pc' = [adder_pc EXCEPT ![caller] = "insert"]
                /\ UNCHANGED adder_return
    /\ UNCHANGED <<shared_actors, write_lock, adder_name, adder_new_actor_id>>
    /\ UNCHANGED <<title_vars, actors_vars, name_vars, system_vars,
                   parse_vars, insight_vars, store_vars>>

\* Lines 67-68: the INSERT, once no other connection holds the write lock.
\* A name that has a committed row by now raises IntegrityError, which
\* leaves the with block (rollback) for the handler of line 70.
InsertStep(caller) ==
    /\ adder_pc[caller] = "insert"
    /\ write_lock = 0
    /\ IF BreaksUniqueName(shared_actors, Strip(adder_name[caller]))
       THEN /\ adder_pc' = [adder_pc EXCEPT ![caller] = "retry"]
            /\ UNCHANGED <<write_lock, adder_new_actor_id>>
       ELSE /\ write_lock' = caller
            /\ adder_new_actor_id' = [adder_new_actor_id EXCEPT ![caller] =
                                         Len(shared_actors) + 1]
            /\ adder_pc' = [adder_pc EXCEPT ![caller] = "commit"]
    /\ UNCHANGED <<shared_actors, adder_name, adder_return>>
    /\ UNCHANGED <<title_vars, actors_vars, name_vars, system_vars,
                   parse_vars, insight_vars, store_vars>>

\* Line 69: return new_actor_id leaves the with block, which commits the
\* inserted row and releases the lock.
CommitStep(caller) ==
    /\ adder_pc[caller] = "commit"
    /\ shared_actors' = Append(shared_actors, Strip(adder_name[caller]))
    /\ write_lock' = 0
    /\ adder_return' = [adder_return EXCEPT ![caller] =
                           Returns(adder_new_actor_id[caller], "new_actor_id")]
    /\ adder_pc' = [adder_pc EXCEPT ![caller] = "done"]
    /\ UNCHANGED <<adder_name, adder_new_actor_id>>
    /\ UNCHANGED <<title_vars, actors_vars, name_vars, system_vars,
                   parse_vars, insight_vars, store_vars>>

\* Lines 70-83: after IntegrityError, the SELECT on a new connection.
RetryStep(caller) ==
    /\ adder_pc[caller] = "retry"
    /\ adder_return' =
           [adder_return EXCEPT ![caller] =
               IF CommittedId(Strip(adder_name[caller])) # NoId
               THEN Returns(CommittedId(Strip(adder_name[caller])), "row_retry")
               ELSE Returns(NoId, "none")]
    /\ adder_pc' = [adder_pc EXCEPT ![caller] = "done"]
    /\ UNCHANGED <<shared_actors, write_lock, adder_name, adder_new_actor_id>>
    /\ UNCHANGED <<title_vars, actors_vars, name_vars, system_vars,
                   parse_vars, insight_vars, store_vars>>

NextRace ==
    \E caller \in Callers :
        \/ SelectStep(caller)
        \/ InsertStep(caller)
        \/ CommitStep(caller)
        \/ RetryStep(caller)

-----------------------------------------------------------------------------
(* Specifications: one per component, the other components idle.           *)

InitTitle ==
    /\ TitleInit
    /\ ActorsIdle /\ NameIdle /\ SystemIdle /\ ParseIdle /\ InsightIdle /\ StoreIdle
    /\ RaceIdle
SpecTitle == InitTitle /\ [][CallConsolidateTitle]_vars

InitActors ==
    /\ ActorsInit
    /\ TitleIdle /\ NameIdle /\ SystemIdle /\ ParseIdle /\ InsightIdle /\ StoreIdle
    /\ RaceIdle
SpecActors == InitActors /\ [][NextActors]_vars

InitName ==
    /\ NameInit
    /\ TitleIdle /\ ActorsIdle /\ SystemIdle /\ ParseIdle /\ InsightIdle /\ StoreIdle
    /\ RaceIdle
SpecName == InitName /\ [][CallGenerateStandardizedFilename]_vars

InitParse ==
    /\ ParseInit
    /\ TitleIdle /\ ActorsIdle /\ NameIdle /\ SystemIdle /\ InsightIdle /\ StoreIdle
    /\ RaceIdle
SpecParse == InitParse /\ [][CallParseFilename]_vars

InitInsight ==
    /\ InsightInit
    /\ TitleIdle /\ ActorsIdle /\ NameIdle /\ SystemIdle /\ ParseIdle /\ StoreIdle
    /\ RaceIdle
SpecInsight == InitInsight /\ [][CallEnhanceTextualMetadata]_vars

InitStore ==
    /\ StoreInit
    /\ TitleIdle /\ ActorsIdle /\ NameIdle /\ SystemIdle /\ ParseIdle /\ InsightIdle
    /\ RaceIdle
SpecStore == InitStore /\ [][NextStore]_vars

InitRace ==
    /\ RaceInit
    /\ TitleIdle /\ ActorsIdle /\ NameIdle /\ SystemIdle /\ ParseIdle /\ InsightIdle
    /\ StoreIdle
SpecRace == InitRace /\ [][NextRace]_vars

Init ==
    /\ SystemInit
    /\ TitleIdle /\ ActorsIdle /\ NameIdle /\ ParseIdle /\ InsightIdle /\ StoreIdle
    /\ RaceIdle
Spec == Init /\ [][Next]_vars
SpecRegistry == Init /\ [][NextRegistry]_vars

-----------------------------------------------------------------------------
(* Claims about _consolidate_title (checked under SpecTitle).              *)

\* The sanitized base of the original filename, the first fallback title.
SanitizedFallbackBase == SanitizeFilenamePart(SplitExtBase(fallback_filename_part))

\* C1: for every parsed title (absent or any string), LLM title (absent or
\* non-empty) and original filename, the consolidated title is never empty;
\* when neither title survives it is the sanitized original filename base,
\* and "Unknown Title" when that base is empty.
C1_TitleNeverEmpty ==
    title_pc = "done" =>
        /\ final_title # <<>>
        /\ (~Truthy(parsed_title) /\ ~Truthy(llm_suggested_title)) =>
              final_title = IF SanitizedFallbackBase # <<>>
                            THEN SanitizedFallbackBase
                            ELSE STR_UnknownTitleSpace

\* C1 witness: no title survived and the filename base sanitizes to nothing,
\* so the placeholder was produced.
C1_Witness ==
    /\ title_pc = "done"
    /\ ~Truthy(parsed_title) /\ ~Truthy(llm_suggested_title)
    /\ fallback_filename_part # <<>>
    /\ SanitizedFallbackBase = <<>>
    /\ final_title = STR_UnknownTitleSpace

\* The original filename base after the Title Normalizer's normalization.
NormalizedFallbackBase == NormalizeTitle(SplitExtBase(fallback_filename_part), NoneStr)

\* The weak-title rule as the specification words it.
ParsedTitleWeakAsSpecified ==
    \/ ~parsed_title.some
    \/ Len(parsed_title.val) < WeakTitleLen
    \/ Contains(Lower(parsed_title.val), STR_Untitled)
    \/ IsDigit(parsed_title.val)
    \/ (NormalizedFallbackBase.some /\ parsed_title.val = NormalizedFallbackBase.val)

\* C4: when an LLM title is supplied and the parsed title is weak (absent,
\* shorter than 5 characters, containing "untitled", purely numeric, or equal
\* to the normalized original filename base), the result is the LLM title.
C4_WeakTitleReplacedByLlm ==
    (title_pc = "done" /\ Truthy(llm_suggested_title) /\ ParsedTitleWeakAsSpecified)
        => final_title = llm_suggested_title.val

\* The parsed title is long enough, not numeric and not "untitled".
ParsedTitleStrong ==
    /\ Truthy(parsed_title)
    /\ Len(parsed_title.val) >= WeakTitleLen
    /\ ~IsDigit(parsed_title.val)
    /\ ~Contains(Lower(parsed_title.val), STR_Untitled)

\* The code's own filename comparison: the lower-cased parsed title equals
\* the lower-cased filename base with "_" and "." replaced by spaces.
ParsedTitleIsFilenameBase ==
    Lower(parsed_title.val)
      = ReplaceChar(ReplaceChar(Lower(SplitExtBase(fallback_filename_part)),
                                "_", " "), ".", " ")

\* C5 as stated: a strong parsed title is kept over a supplied LLM title for
\* every original filename.
C5_StrongTitleKeptForEveryFilename ==
    (title_pc = "done" /\ Truthy(llm_suggested_title) /\ ParsedTitleStrong)
        => final_title = parsed_title.val

\* C5 amended: a strong parsed title is kept over a supplied LLM title
\* unless it equals, ignoring case, the original filename base with
\* underscores and dots replaced by spaces.
C5_StrongTitleKeptUnlessFilenameBase ==
    (title_pc = "done" /\ Truthy(llm_suggested_title) /\ ParsedTitleStrong
       /\ ~ParsedTitleIsFilenameBase)
        => final_title = parsed_title.val

\* C5 witness: a strong parsed title that is not the filename base was kept
\* although an LLM title was supplied.
C5_Witness ==
    /\ title_pc = "done"
    /\ Truthy(llm_suggested_title)
    /\ ParsedTitleStrong
    /\ ~ParsedTitleIsFilenameBase
    /\ Len(parsed_title.val) = WeakTitleLen
    /\ final_title = parsed_title.val
    /\ final_title # llm_suggested_title.val

-----------------------------------------------------------------------------
(* Claims about the actor map (checked under SpecActors).                  *)

\* The id a name resolves to in the pass's registry (NoId for a miss).
ResolvedId(name) == GetActorIdByNameOrAlias(pass_db, pass_registry, name).id

\* No two facts of the list share a registry id, and no two id-less facts
\* share a lower-cased name.
OneFactPerIdentity(list) ==
    \A i, j \in 1..Len(list) :
        i # j =>
            /\ ~(list[i].id # NoId /\ list[i].id = list[j].id)
            /\ ~(list[i].id = NoId /\ list[j].id = NoId
                 /\ Lower(list[i].canonical_name) = Lower(list[j].canonical_name))

\* C2: within one consolidation pass (filename actors, then LLM actors, a
\* fixed registry) the actor list holds at most one fact per registry id and
\* at most one id-less fact per lower-cased name; a parsed actor and an LLM
\* actor resolving to the same id yield exactly one entry.
C2_OneFactPerIdentity ==
    /\ OneFactPerIdentity(DictValues(actors_map))
    /\ actors_pc = "done" =>
         /\ OneFactPerIdentity(final_actors_list)
         /\ \A p \in 1..Len(parsed_actors), l \in 1..Len(llm_identified_actors) :
              (ResolvedId(parsed_actors[p]) # NoId
               /\ ResolvedId(parsed_actors[p]) = ResolvedId(llm_identified_actors[l]))
              => Cardinality({k \in 1..Len(final_actors_list) :
                    final_actors_list[k].id = ResolvedId(parsed_actors[p])}) = 1

\* C2 witness: a finished pass in which a parsed actor and an LLM actor,
\* spelled differently, resolved to the same id and left one entry for it.
C2_Witness ==
    /\ actors_pc = "done"
    /\ \E p \in 1..Len(parsed_actors), l \in 1..Len(llm_identified_actors) :
         /\ ResolvedId(parsed_actors[p]) # NoId
         /\ ResolvedId(parsed_actors[p]) = ResolvedId(llm_identified_actors[l])
         /\ parsed_actors[p] # llm_identified_actors[l]
         /\ Cardinality({k \in 1..Len(final_actors_list) :
                final_actors_list[k].id = ResolvedId(parsed_actors[p])}) = 1
    /\ Len(final_actors_list) = 2

\* What the merge of LLM name n into map m must give, as the claim words it.
LlmMergeAsSpecified(m, n, m2) ==
    LET hit == ResolvedId(n)
    IN  IF hit # NoId
        THEN IF ~HasKey(m, IdKey(hit))
             THEN /\ Len(m2) = Len(m) + 1
                  /\ SubSeq(m2, 1, Len(m)) = m
                  /\ m2[Len(m2)].key = IdKey(hit)
                  /\ m2[Len(m2)].value.id = hit
                  /\ m2[Len(m2)].value.canonical_name = pass_registry.actors[hit]
             ELSE /\ Len(m2) = Len(m)
                  /\ \A i \in 1..Len(m) :
                       m2[i] = IF m[i].key = IdKey(hit)
                               THEN [m[i] EXCEPT !.value.canonical_name =
                                                     pass_registry.actors[hit]]
                               ELSE m[i]
        ELSE IF ~HasKey(m, NameKey(Lower(n)))
             THEN /\ Len(m2) = Len(m) + 1
                  /\ SubSeq(m2, 1, Len(m)) = m
                  /\ m2[Len(m2)].key = NameKey(Lower(n))
                  /\ m2[Len(m2)].value.id = NoId
                  /\ m2[Len(m2)].value.canonical_name = n
             ELSE m2 = m

\* C6: merging an LLM actor name: a registry hit creates the entry keyed by
\* the id or, if it exists, overwrites its canonical name with the registry's
\* stored name; a miss creates an entry keyed by the lower-cased name only if
\* there is none, and otherwise leaves the map unchanged.
C6_LlmActorMerge ==
    [][ (actors_pc = "llm" /\ llm_i' = llm_i + 1)
          => LlmMergeAsSpecified(actors_map, llm_identified_actors[llm_i], actors_map')
      ]_vars

\* C6 witness: the LLM loop has merged a name that hit the registry into the
\* entry a filename actor had created for the same id, and a name that
\* missed into a new entry keyed by its lower-cased name.
C6_Witness ==
    /\ actors_pc = "llm"
    /\ llm_i = 3
    /\ ResolvedId(llm_identified_actors[1]) # NoId
    /\ \E p \in 1..Len(parsed_actors) :
         ResolvedId(parsed_actors[p]) = ResolvedId(llm_identified_actors[1])
    /\ ResolvedId(llm_identified_actors[2]) = NoId
    /\ actors_map[Len(actors_map)].key = NameKey(Lower(llm_identified_actors[2]))
    /\ actors_map[Len(actors_map)].value.source = "llm_no_db_match"

\* C29 as stated: for every registry content and every list of filename
\* and LLM actor names, no two entries of the final list have canonical
\* names that are equal ignoring case.  The registry is searched for the
\* name as spelled, so a spelling it does not hold stays without id, keyed
\* by its lower-cased name, beside the entry of the registered spelling,
\* keyed by its id.
C29_NoTwoNamesEqualIgnoringCase ==
    actors_pc = "done" =>
        \A i, j \in 1..Len(final_actors_list) :
            Lower(final_actors_list[i].canonical_name)
                = Lower(final_actors_list[j].canonical_name) => i = j

\* C29, amended: no two entries of the final list have the same canonical
\* name or the same registry id, and no two entries without a registry id
\* have canonical names that are equal ignoring case: two entries whose
\* names are equal ignoring case are spelled differently, and at least one
\* of them carries a registry id.
C29_NoTwoNamesEqualUnlessRegistered ==
    actors_pc = "done" =>
        \A i, j \in 1..Len(final_actors_list) :
            i # j =>
                /\ final_actors_list[i].canonical_name
                       # final_actors_list[j].canonical_name
                /\ (final_actors_list[i].id = final_actors_list[j].id)
                       => final_actors_list[i].id = NoId
                /\ (Lower(final_actors_list[i].canonical_name)
                        = Lower(final_actors_list[j].canonical_name))
                       => (final_actors_list[i].id # NoId
                           \/ final_actors_list[j].id # NoId)

\* A finished pass left an entry with a registry id and an entry without
\* one whose canonical names are equal ignoring case.
C29_Witness ==
    /\ actors_pc = "done"
    /\ \E i, j \in 1..Len(final_actors_list) :
           /\ final_actors_list[i].id # NoId
           /\ final_actors_list[j].id = NoId
           /\ Lower(final_actors_list[i].canonical_name)
                  = Lower(final_actors_list[j].canonical_name)

-----------------------------------------------------------------------------
(* Claims about generate_standardized_filename (SpecName).                 *)

CodePresent == Truthy(name_meta.code)
PublisherPresent == Truthy(name_meta.publisher)

\* The leading bracketed segment as the specification words it, read on
\* the returned name.
BracketLeadsName ==
    /\ CodePresent =>
         StartsWith(name_out.filename,
                    Bracketed(SanitizeFilenamePart(name_meta.code.val)))
    /\ (~CodePresent /\ PublisherPresent) =>
         StartsWith(name_out.filename,
                    Bracketed(SanitizeFilenamePart(name_meta.publisher.val)))
    /\ (~CodePresent /\ ~PublisherPresent) => name_out.code_publisher_str = <<>>
    /\ (CodePresent /\ PublisherPresent) =>
         ~Contains(name_out.filename, SanitizeFilenamePart(name_meta.publisher.val))

FallbackDue ==
    \/ name_out.assembled = <<>>
    \/ (name_out.assembled = STR_UnknownTitle
        /\ name_out.code_publisher_str = <<>> /\ name_meta.actors = <<>>)

\* The sanitized base of the original filename, or "Untitled_Video".
FallbackBase ==
    LET original == IF name_meta.original_filename_for_fallback.some
                    THEN name_meta.original_filename_for_fallback.val
                    ELSE STR_UntitledVideo
    IN  IF SanitizeFilenamePart(SplitExtBase(original)) # <<>>
        THEN SanitizeFilenamePart(SplitExtBase(original))
        ELSE STR_UntitledVideo

\* C9: after all steps of generate_standardized_filename the base name is
\* never empty, and when the assembled base is empty, or is exactly the
\* unknown-title placeholder with no bracket segment and no actors, the
\* base name is the sanitized base of the original filename, or
\* "Untitled_Video" if that is empty.
C9_BaseNameNeverEmpty ==
    name_pc = "done" =>
        /\ name_out.base_name # <<>>
        /\ FallbackDue => name_out.base_name = FallbackBase

\* C10: the title segment is the sanitized title, and it is the literal
\* "Unknown_Title" whenever the title is absent or is empty after
\* sanitization.
C10_TitleSegmentNeverEmpty ==
    name_pc = "done" =>
        name_out.title_segment =
            IF ~name_meta.title.some
               \/ SanitizeFilenamePart(name_meta.title.val) = <<>>
            THEN STR_UnknownTitle
            ELSE SanitizeFilenamePart(name_meta.title.val)

\* The characters the length rule trims at the cut point, and whitespace.
CutTrimmed == WhitespaceChars \cup {"_", ".", "-"}

\* C11: for every input the base name of the standardized filename is at
\* most 200 characters long, and when the combined base name was longer
\* than 200 characters the truncated base name does not end in whitespace,
\* underscore, dot or hyphen.
C11_BaseNameCut ==
    name_pc = "done" =>
        /\ Len(name_out.base_name) <= max_len
        /\ (Len(name_out.after_fallback) > max_len /\ name_out.base_name # <<>>)
             => name_out.base_name[Len(name_out.base_name)] \notin CutTrimmed

\* The combined base name is longer than 200 characters, its 200th
\* character is a separator, and the base name returned is shorter than
\* 200 characters and not empty.
C11_Witness ==
    /\ name_pc = "done"
    /\ Len(name_out.after_fallback) > max_len
    /\ name_out.after_fallback[max_len] \in CutTrimmed
    /\ name_out.base_name # <<>>
    /\ Len(name_out.base_name) < max_len

\* s holds two whitespace characters next to each other.
HasWhitespaceRun(s) ==
    \E i \in 1..(Len(s) - 1) : s[i] \in WhitespaceChars /\ s[i + 1] \in WhitespaceChars

\* s holds one of the characters \ / : * ? " < > |
HasForbiddenChar(s) == \E i \in 1..Len(s) : s[i] \in ForbiddenChars

\* C12: every free-text segment of the standardized name is sanitized, so
\* the base name of the output never contains any of the characters
\* \ / : * ? " < > | and never contains a run of two or more whitespace
\* characters.
C12_BaseNameSanitized ==
    name_pc = "done" =>
        /\ ~HasForbiddenChar(name_out.base_name)
        /\ ~HasWhitespaceRun(name_out.base_name)

\* A code, a title and an actor name that each hold a forbidden character,
\* the title and the actor name a whitespace run too, all rendered in the
\* base name.
C12_Witness ==
    /\ name_pc = "done"
    /\ name_meta.code = Some(<<"A","?">>)
    /\ name_meta.title = Some(STR_T_1)
    /\ \E i \in 1..Len(name_meta.actors) :
           name_meta.actors[i].canonical_name = STR_JaneRoeRaw
    /\ name_out.base_name =
           <<"[","A","_","]"," ","T","_"," ","1"," ","-"," ",
             "J","a","n","e"," ","R","_","o","e">>

-----------------------------------------------------------------------------
(* Claims about process_video_file in the running system (Spec).           *)

Returned == process_call.made /\ ~process_result.is_none

\* C3 as stated: for every existing file, process_video_file returns a
\* complete consolidated record with a non-empty title and never None,
\* whatever the condition of the database and of the LLM client.  The
\* registry lookups raise when the database is unreachable, and
\* _prepare_text_for_ai raises on a parsed title of None, so this does not
\* hold.
C3_NeverFailsForExistingFile ==
    (process_call.made /\ process_call.exists)
        => /\ ~process_result.is_none
           /\ process_result.consolidated_metadata.title # <<>>

\* The actors of the returned record that carry a registry id.
RegisteredActors ==
    SelectSeq(process_result.consolidated_metadata.actors,
              LAMBDA actor : actor.id # NoId)

\* The name the name builder returns for the returned record when only its
\* registered actors are rendered.
NameOfRegisteredActors ==
    GenerateStandardizedFilename(
        [code |-> process_result.consolidated_metadata.code,
         publisher |-> process_result.consolidated_metadata.publisher,
         title |-> Some(process_result.consolidated_metadata.title),
         actors |-> RegisteredActors,
         original_filename_for_fallback |->
             Some(Basename(process_call.video_filepath))],
        SplitExtExt(Basename(process_call.video_filepath)))

\* C7: for every processed file, every actor handed to
\* generate_standardized_filename and to update_video_record carries a
\* registry id, the standardized name is the one built from the registered
\* actors alone, and every association in the Record Store names a row of
\* the Name Registry.
C7_OnlyRegisteredActorsPassed ==
    /\ Returned =>
         /\ \A i \in 1..Len(process_result.actors_passed) :
                process_result.actors_passed[i].id # NoId
         /\ process_result.actors_passed = RegisteredActors
         /\ process_result.consolidated_metadata.standardized_filename
                = NameOfRegisteredActors
    /\ \A link \in record_store.video_actors :
           link[2] \in 1..Len(registry.actors)

\* A call returned a record with a registered and an unregistered actor:
\* the registered one was passed on and stored, the other one was not, and
\* its name is not in the standardized name.
C7_Witness ==
    /\ Returned
    /\ \E i \in 1..Len(process_result.consolidated_metadata.actors) :
           LET actor == process_result.consolidated_metadata.actors[i]
           IN  /\ actor.id = NoId
               /\ actor.canonical_name = STR_MaxRoe
    /\ Len(process_result.actors_passed) = 1
    /\ process_result.actors_passed[1].canonical_name = STR_JohnDoe
    /\ ~Contains(process_result.consolidated_metadata.standardized_filename,
                 STR_MaxRoe)
    /\ Contains(process_result.consolidated_metadata.standardized_filename,
                STR_JohnDoe)
    /\ record_store.video_actors = {<<1, process_result.actors_passed[1].id>>}

\* The file name handed to the last call carries a bracketed code.
BracketedCodeInName ==
    ReSearch(CODE_PATTERN_BRACKETS,
             RsplitDotBase(Basename(process_call.video_filepath))).found

\* The code and title of a re-parse are those of the returned record.
SameCodeAndTitle(reparsed) ==
    /\ reparsed.code = process_result.consolidated_metadata.code
    /\ reparsed.title = Some(process_result.consolidated_metadata.title)

\* C13 as stated: when a file with a bracketed code is processed and its
\* standardized filename is parsed again by parse_filename, the re-parsed
\* code and title equal the code and title of the consolidated record that
\* produced the name.  An actor the registry does not know is left out of
\* the name, and the re-parse then reads the last capitalized words of the
\* title as an actor, so this does not hold.
C13_RoundTripKeepsCodeAndTitle ==
    (Returned /\ BracketedCodeInName) =>
        SameCodeAndTitle(ParseFilename(
            process_result.consolidated_metadata.standardized_filename))


\* The rows of the Record Store for the filepath of the last call.
StoredRecords ==
    { record_store.videos[i] : i \in { j \in 1..Len(record_store.videos) :
                                          record_store.videos[j].filepath
                                              = process_call.video_filepath } }

\* C28 as stated: whenever process_video_file returns a result (not None),
\* the Record Store holds a record for that filepath whose code, title and
\* standardized filename equal those in the returned consolidated
\* metadata; a failed update_video_record is never reported to the caller
\* as a successful processing.  process_video_file does not look at what
\* update_video_record returns (lines 447-456), so with the tables missing
\* or the database unreachable it returns the result and nothing is
\* stored.
C28_ReturnedResultIsStored ==
    Returned =>
        /\ process_result.update_ok
        /\ \E row \in StoredRecords :
               /\ row.code = process_result.consolidated_metadata.code
               /\ row.title = process_result.consolidated_metadata.title
               /\ row.standardized_filename =
                      process_result.consolidated_metadata.standardized_filename

\* What a call of enhance_textual_metadata made now, with a text that is
\* not empty, returns for these LLM answers.
EnhancementsNow(answers) ==
    EnhanceTextualMetadata(content_analysis_client, STR_SomeMovie,
                           STR_SomeMovie \o EXT_mp4, answers)

\* C30 as stated: after configure_ollama_client has succeeded, a later
\* enhance_textual_metadata call with non-empty text sees the client as
\* available and queries the LLM for publisher and actors; it takes the
\* "client not available" path only while no client is configured.
\* content_analysis binds the name ollama_client at import, when it is
\* None, and configure_ollama_client assigns the global of llm_analyzer
\* only, so the call never sees a client.
C30_ConfiguredClientIsSeen ==
    llm_analyzer_client # NoClient =>
        /\ content_analysis_client # NoClient
        /\ \A answers \in LlmAnswers :
               EnhancementsNow(answers)
                   = EnhanceTextualMetadata(llm_analyzer_client, STR_SomeMovie,
                                            STR_SomeMovie \o EXT_mp4, answers)

-----------------------------------------------------------------------------
(* Claims about parse_filename (SpecParse).                                *)

\* parse_filename returned no code, no title and no actors.
AllFactsEmpty ==
    /\ parse_result.code = NoneStr
    /\ parse_result.title = NoneStr
    /\ parse_result.actors = <<>>

\* The file name without its extension holds a character that is not
\* whitespace.
NameHasText ==
    \E i \in 1..Len(RsplitDotBase(parse_filename_string)) :
        RsplitDotBase(parse_filename_string)[i] \notin WhitespaceChars

\* C14 as stated: for every filename whose name contains any text at all,
\* parse_filename never returns code=None, title=None and actors=[]
\* together.  A hidden file is returned without facts, and a name made of
\* separators only normalizes to no title, so this does not hold.
C14_NeverAllEmptyForAnyText ==
    (parse_pc = "done" /\ NameHasText) => ~AllFactsEmpty

\* The file name is not hidden and its base holds a character other than
\* whitespace, '.', '_' and '-'.
NameHasTitleText ==
    /\ parse_filename_string # <<>>
    /\ parse_filename_string[1] # "."
    /\ \E i \in 1..Len(RsplitDotBase(parse_filename_string)) :
           RsplitDotBase(parse_filename_string)[i]
               \notin (WhitespaceChars \cup {".", "_", "-"})

\* C14, amended: for every filename that does not start with '.' and whose
\* base holds a character other than whitespace, '.', '_' and '-',
\* parse_filename never returns code=None, title=None and actors=[]
\* together: when extraction finds no code and no actors, the title is the
\* normalized original base filename.
C14_NeverAllEmptyForTitleText ==
    (parse_pc = "done" /\ NameHasTitleText) =>
        /\ ~AllFactsEmpty
        /\ (parse_result.code = NoneStr /\ parse_result.actors = <<>>) =>
               /\ parse_result.title.some
               /\ parse_result.title =
                      NormalizeTitle(RsplitDotBase(parse_filename_string), NoneStr)

\* "some movie.mp4" has no code and no actors, and its title is its
\* normalized base.
C14_Witness ==
    /\ parse_pc = "done"
    /\ parse_filename_string = STR_SomeMovie \o EXT_mp4
    /\ parse_result.code = NoneStr
    /\ parse_result.actors = <<>>
    /\ parse_result.title = Some(STR_SomeMovie)

\* C15: for an empty filename, a filename starting with '.', or a filename
\* whose base is empty, parse_filename returns code=None, title=None,
\* actors=[] with original_filename equal to the input.
C15_NoFactsForEmptyOrHidden ==
    (/\ parse_pc = "done"
     /\ \/ parse_filename_string = <<>>
        \/ parse_filename_string[1] = "."
        \/ RsplitDotBase(parse_filename_string) = <<>>) =>
        /\ AllFactsEmpty
        /\ parse_result.original_filename = parse_filename_string

\* The hidden file ".hidden.mp4" was parsed: no facts, and the name handed
\* back.
C15_Witness ==
    /\ parse_pc = "done"
    /\ parse_filename_string = STR_hidden \o EXT_mp4
    /\ AllFactsEmpty
    /\ parse_result.original_filename = STR_hidden \o EXT_mp4

\* The words that mark an episode, a part, a volume, a chapter or a scene.
MarkerWords ==
    { <<"e","p">>, <<"e","p","i","s","o","d","e">>, <<"p","a","r","t">>,
      <<"v","o","l">>, <<"v","o","l","u","m","e">>,
      <<"c","h","a","p","t","e","r">>, <<"s","c">>, <<"s","c","e","n","e">> }

\* The token ends, in any case, in a separator, a marker word and digits.
HasMarkerTail(token) ==
    \E word \in MarkerWords :
        \E digits \in 1..(Len(token) - Len(word) - 1) :
            LET at == Len(token) - digits - Len(word)
            IN  /\ token[at] \in {"_", "-"}
                /\ SubSeq(Lower(token), at + 1, at + Len(word)) = word
                /\ IsDigit(SubSeq(token, at + Len(word) + 1, Len(token)))

\* The filename part handed to _extract_code by parse_filename.
CodeSearchPart == RsplitDotBase(parse_filename_string)

\* The filename part holds no bracketed code, and the unbracketed code
\* pattern matches a token with a marker tail.
MarkerTokenMatched ==
    /\ ~ReSearch(CODE_PATTERN_BRACKETS, CodeSearchPart).found
    /\ ReSearch(CODE_PATTERN_NO_BRACKETS, CodeSearchPart).found
    /\ HasMarkerTail(Group0(CodeSearchPart,
                            ReSearch(CODE_PATTERN_NO_BRACKETS, CodeSearchPart)))

\* C23 as stated: when no bracketed code exists and the unbracketed code
\* pattern matches a token whose tail is an episode, part, volume, chapter
\* or scene marker followed by digits, _extract_code rejects it: code is
\* None and the remainder is the input unchanged.  The filter of line 78
\* knows "vol" and "sc" but not "volume" and "scene", so a token ending in
\* _scene1 or _volume3 is returned as the code.
C23_MarkerTokenRejected ==
    (parse_pc = "done" /\ MarkerTokenMatched) =>
        /\ ExtractCode(CodeSearchPart).code = NoneStr
        /\ ExtractCode(CodeSearchPart).remaining = CodeSearchPart
        /\ parse_result.code = NoneStr

\* What parse_filename hands to _extract_actors_suffix_heuristic (lines
\* 247-257): the text the code step and the dash step left, when the dash
\* step found no actor.
SuffixPart ==
    ExtractActorsDashSeparated(ExtractCode(CodeSearchPart).remaining).remaining

SuffixHeuristicRan ==
    /\ parse_pc = "done"
    /\ parse_result # NoParse(parse_filename_string)
    /\ ExtractActorsDashSeparated(ExtractCode(CodeSearchPart).remaining).actors
           = <<>>

\* The candidate of the suffix pattern in SuffixPart and its atoms.
SuffixMatch == ReSearch(ACTOR_PATTERN_SUFFIX_HEURISTIC, SuffixPart)

SuffixCandidate == SubSeq(SuffixPart, SuffixMatch.start + 1, SuffixMatch.end - 1)

SuffixAtoms ==
    SelectSeq(ReSplit(AtomSplitRe, SuffixCandidate), LAMBDA p : p # <<>>)

\* C24 as stated: if any atom of the candidate, lower-cased, is a common
\* stop-word, a single-letter atom such as "A" included, the whole
\* candidate is discarded: no actor is returned and the remainder is
\* unchanged.  A single capital letter is accepted as an initial without
\* being looked up among the stop-words (lines 149-151), so "A Day" is
\* returned as an actor.
C24_StopWordAtomDiscardsCandidate ==
    (/\ SuffixHeuristicRan
     /\ SuffixMatch.found
     /\ \E i \in 1..Len(SuffixAtoms) :
            Lower(SuffixAtoms[i]) \in COMMON_NON_ACTOR_WORDS)
        => /\ ExtractActorsSuffixHeuristic(SuffixPart)
                  = [actors |-> <<>>, remaining |-> SuffixPart]
           /\ parse_result.actors = <<>>

\* The character between the two atoms of a two-atom candidate.
AtomSeparator == SuffixCandidate[Len(SuffixAtoms[1]) + 1]

\* C25 as stated: when the heuristic accepts a two-atom candidate, the
\* atoms become two separate actors if and only if the separator between
\* the two atoms is an underscore; separated by a space they are joined
\* into one actor name, whatever separator precedes the candidate.  The
\* code looks for "_" in match.group(0), which begins with the separator
\* before the candidate (line 167), so "Title_Jane Roe" gives two actors.
C25_SeparateActorsIffUnderscoreBetween ==
    (/\ SuffixHeuristicRan
     /\ SuffixMatch.found
     /\ Len(SuffixAtoms) = 2
     /\ ExtractActorsSuffixHeuristic(SuffixPart).actors # <<>>)
        => /\ (ExtractActorsSuffixHeuristic(SuffixPart).actors = SuffixAtoms)
                  <=> AtomSeparator = "_"
           /\ AtomSeparator = " "
                  => ExtractActorsSuffixHeuristic(SuffixPart).actors
                         = <<Join(<<" ">>, SuffixAtoms)>>

-----------------------------------------------------------------------------
(* Claims about enhance_textual_metadata (SpecInsight).                    *)

\* The request failed, or the answer, trimmed and lower-cased, is "none",
\* "n/a" or empty.
NotProvided(answer) ==
    \/ ~answer.some
    \/ Lower(Strip(answer.val)) \in { <<"n","o","n","e">>, <<"n","/","a">>, <<>> }

\* What the call returns when the LLM's answers are these.
ResultsFor(answers) ==
    EnhanceTextualMetadata(insight_client, insight_text_input,
                           insight_original_filename, answers)

\* C16: for each of the publisher, actor and title suggestions, if the
\* Text Insight Service is unavailable or its answer, trimmed and
\* lower-cased, is "none", "n/a" or empty, enhance_textual_metadata reports
\* that field as not provided (None / empty list), and the other fields
\* are what they are for every other answer to that prompt.
C16_UnprovidedFieldIsNone ==
    insight_pc = "done" =>
        /\ (insight_client = NoClient \/ NotProvided(insight_answers.publisher))
               => insight_results.llm_identified_publisher = NoneStr
        /\ (insight_client = NoClient \/ NotProvided(insight_answers.actors))
               => insight_results.llm_identified_actors = <<>>
        /\ (insight_client = NoClient \/ NotProvided(insight_answers.title))
               => insight_results.llm_suggested_title = NoneStr
        /\ \A answer \in PublisherAnswers :
               LET other == ResultsFor([insight_answers EXCEPT !.publisher = answer])
               IN  /\ other.llm_identified_actors = insight_results.llm_identified_actors
                   /\ other.llm_suggested_title = insight_results.llm_suggested_title
        /\ \A answer \in ActorsAnswers :
               LET other == ResultsFor([insight_answers EXCEPT !.actors = answer])
               IN  /\ other.llm_identified_publisher = insight_results.llm_identified_publisher
                   /\ other.llm_suggested_title = insight_results.llm_suggested_title
        /\ \A answer \in TitleAnswers :
               LET other == ResultsFor([insight_answers EXCEPT !.title = answer])
               IN  /\ other.llm_identified_publisher = insight_results.llm_identified_publisher
                   /\ other.llm_identified_actors = insight_results.llm_identified_actors

\* The client is connected, the publisher answer is " None ", the title
\* request failed, and the actors answer names two people: publisher and
\* title are reported as not provided and the two actors are reported.
C16_Witness ==
    /\ insight_pc = "done"
    /\ insight_client = Client
    /\ insight_text_input = STR_FiveWords
    /\ insight_original_filename = STR_SomeMovie \o EXT_mp4
    /\ insight_answers.publisher = Some(<<" ","N","o","n","e"," ">>)
    /\ insight_answers.title = NoneStr
    /\ insight_results.llm_identified_publisher = NoneStr
    /\ insight_results.llm_suggested_title = NoneStr
    /\ insight_results.llm_identified_actors = <<STR_JohnDoe, STR_MaxRoe>>

-----------------------------------------------------------------------------
(* Claims about update_video_record (SpecStore).                           *)

\* The id of the row of the last call's filepath, before and after it.
VideoIdBefore ==
    SelectVideoId(update_call.store_before, update_call.original_filepath)
VideoIdAfter == SelectVideoId(store, update_call.original_filepath)

\* The row the last call asked for.
RowOfCall ==
    VideoRow(update_call.original_filepath, update_call.data.code,
             update_call.data.title, update_call.data.publisher,
             update_call.data.duration_seconds,
             update_call.data.standardized_filename)

\* C18: after any sequence of update_video_record calls the Record Store
\* holds at most one video record per filepath; a second call for an
\* existing filepath keeps the record's id and sets code, title,
\* publisher, duration and standardized filename to the values of the
\* latest call.
C18_UpsertByFilepath ==
    /\ \A i, j \in 1..Len(store.videos) :
           store.videos[i].filepath = store.videos[j].filepath => i = j
    /\ (update_call.made /\ update_call.ok /\ VideoIdBefore # 0) =>
           /\ VideoIdAfter = VideoIdBefore
           /\ Len(store.videos) = Len(update_call.store_before.videos)
           /\ store.videos[VideoIdAfter] = RowOfCall

\* A second call for a stored filepath with other values: the row kept its
\* id and holds the new values.
C18_Witness ==
    /\ update_call.made /\ update_call.ok
    /\ VideoIdBefore = 1
    /\ update_call.store_before.videos[1] # RowOfCall
    /\ Len(store.videos) = 1
    /\ store.videos[1] = RowOfCall

\* The ids of the last call's actors_list, and the actors associated with
\* its video.
ListedIds ==
    { update_call.actors_list[i].id : i \in 1..Len(update_call.actors_list) }
AssociatedIds ==
    { link[2] : link \in { l \in store.video_actors : l[1] = VideoIdAfter } }
ExistingIds == 1..Len(store_registry.actors)

\* C19 as stated: after a successful update_video_record call with a list
\* of registered actor ids, the video's actor associations are exactly the
\* set of ids in that list, whatever associations existed before.  The
\* batch insert stops at the first id that repeats an earlier one, so the
\* ids listed after it are not associated.
C19_AssociationsAreListedIds ==
    (update_call.made /\ update_call.ok /\ ListedIds \subseteq ExistingIds)
        => AssociatedIds = ListedIds

\* C20 as stated: when update_video_record is given a list mixing ids that
\* exist in the actors table and ids that do not, it returns True and the
\* video ends up associated with every listed actor whose id exists and
\* with no actor whose id does not exist, whatever the order of the list.
\* The batch insert stops at the first id that does not exist, so the
\* existing ids listed after it are not associated.
C20_ExistingIdsAssociated ==
    (/\ update_call.made
     /\ store_db = "ok"
     /\ ListedIds \cap ExistingIds # {}
     /\ GhostActorId \in ListedIds)
        => /\ update_call.ok
           /\ AssociatedIds = ListedIds \cap ExistingIds

\* What a store holds for a filepath: the rows of table videos with that
\* filepath, without their ids, and the actors associated with them.
StoredFor(a_store, filepath) ==
    [records |-> { a_store.videos[i] : i \in { j \in 1..Len(a_store.videos) :
                                                  a_store.videos[j].filepath
                                                      = filepath } },
     actors |-> { link[2] : link \in { l \in a_store.video_actors :
                                          l[1] = SelectVideoId(a_store, filepath) } }]

\* The store after a call of update_video_record on a_store.
StoreAfter(a_store, original_filepath, data, actors_list) ==
    UpdateVideoRecord(store_db, store_registry, a_store, original_filepath,
                      data.code, data.title, data.publisher,
                      data.duration_seconds, data.standardized_filename,
                      actors_list).store

\* The actors lists of the call for the other filepath: none, one actor,
\* two actors, a missing id before an existing one, and a repeated id.
OtherActorsLists ==
    { ActorsWithIds(ids) :
          ids \in { <<>>, <<1>>, <<2, 1>>, <<GhostActorId, 1>>, <<1, 1, 2>> } }

-----------------------------------------------------------------------------
(* Claims about the Name Registry operations (SpecRegistry).               *)

\* The names looked up in the Name Registry.
LookupNames == RegistryNameInputs

\* C17 as stated: once get_actor_id_by_name_or_alias(n) has returned id i,
\* it returns i for n after every later add_actor and add_alias call.
\* add_actor looks for the name among the canonical names only, so a name
\* that is the alias of one actor is added as a new actor, and the lookup,
\* which reads the canonical names first, then returns the new id.
C17_LookupIsStable ==
    [][\A name \in LookupNames :
           (/\ db_condition' = db_condition
            /\ GetActorIdByNameOrAlias(db_condition, registry, name).id # NoId)
               => GetActorIdByNameOrAlias(db_condition, registry', name)
                      = GetActorIdByNameOrAlias(db_condition, registry, name)]_vars

\* Names handed to add_actor in the claims below: the registry inputs and
\* a name with whitespace around it.
AddActorNames == RegistryNameInputs \cup { STR_JohnDoePadded }

\* C21: add_actor is get-or-create.  Table actors holds one row per
\* distinct trimmed name; on a healthy database adding a name that has a
\* row returns that row's id and changes nothing, adding a name that has
\* none gives it a row of its own, two different trimmed names get two
\* different ids; and an empty or whitespace-only name returns None and
\* leaves the registry unchanged, whatever the database.
C21_AddActorGetOrCreate ==
    /\ \A i, j \in 1..Len(registry.actors) :
           /\ registry.actors[i] = registry.actors[j] => i = j
           /\ registry.actors[i] # <<>>
           /\ Strip(registry.actors[i]) = registry.actors[i]
    /\ \A name \in AddActorNames :
           LET out == AddActor(db_condition, registry, name)
           IN  /\ Strip(name) = <<>> => out.id = NoId /\ out.reg = registry
               /\ (db_condition = "ok" /\ Strip(name) # <<>>) =>
                      /\ out.id \in 1..Len(out.reg.actors)
                      /\ out.reg.actors[out.id] = Strip(name)
                      /\ out.reg.aliases = registry.aliases
                      /\ (\E i \in 1..Len(registry.actors) :
                              registry.actors[i] = Strip(name))
                             => /\ out.reg = registry
                                /\ registry.actors[out.id] = Strip(name)
                      /\ AddActor(db_condition, out.reg, name).id = out.id
                      /\ AddActor(db_condition, out.reg, name).reg = out.reg
                      /\ \A other \in AddActorNames :
                             (Strip(other) # <<>> /\ Strip(other) # Strip(name))
                                 => AddActor(db_condition, out.reg, other).id # out.id

\* Two names were added, and adding the first again, with whitespace around
\* it, returns its id.
C21_Witness ==
    /\ db_condition = "ok"
    /\ Len(registry.actors) = 2
    /\ registry.actors[1] = STR_JohnDoe
    /\ AddActor(db_condition, registry, STR_JohnDoePadded).id = 1
    /\ AddActor(db_condition, registry, STR_JohnDoePadded).reg = registry
    /\ AddActor(db_condition, registry, <<" ">>).id = NoId

\* Whether table actor_aliases of reg holds a row for the alias name.
AliasExists(reg, alias_name) ==
    \E k \in 1..Len(reg.aliases) : reg.aliases[k].alias_name = alias_name

\* Aliases and actor ids handed to add_alias in the claim below.
AddAliasNames == RegistryNameInputs \cup { <<>>, <<" ">> \o STR_JDoe }
AddAliasIds == 0..(MaxActors + 1)

-----------------------------------------------------------------------------
(* Claims about concurrent add_actor calls (SpecRace).                     *)

AllReturned == \A caller \in Callers : adder_return[caller].returned

\* C27: when two callers run add_actor concurrently with the same new
\* name, in every interleaving of their SELECT and INSERT steps the
\* registry ends with exactly one actor row for that name and both calls
\* return that row's id.  At every moment the committed rows hold a name
\* at most once, and a call for a name with text that has returned has
\* returned the id of the row of its trimmed name.
C27_ConcurrentAddActorOneRow ==
    /\ \A i, j \in 1..Len(shared_actors) :
           shared_actors[i] = shared_actors[j] => i = j
    /\ \A caller \in Callers :
           (adder_return[caller].returned /\ Strip(adder_name[caller]) # <<>>) =>
               /\ adder_return[caller].id \in 1..Len(shared_actors)
               /\ shared_actors[adder_return[caller].id]
                      = Strip(adder_name[caller])
    /\ AllReturned =>
           \A caller, other \in Callers :
               Strip(adder_name[caller]) = Strip(adder_name[other])
                   => adder_return[caller].id = adder_return[other].id

\* Both callers added the same new name, both found no row, one inserted
\* it and the other one hit the constraint and read the id again.
C27_Witness ==
    /\ AllReturned
    /\ Strip(adder_name[1]) = Strip(adder_name[2])
    /\ adder_name[1] # adder_name[2]
    /\ \E caller \in Callers :
           /\ adder_return[caller].by = "new_actor_id"
           /\ \E other \in Callers : adder_return[other].by = "row_retry"
    /\ adder_return[1].id = adder_return[2].id

=============================================================================
